---- MODULE Spec2Model ----
(***************************************************************************)
(* A model of the scheme-rs evaluator (src/src/eval.rs), its environment   *)
(* frames (src/src/env.rs) and the builtin library (src/src/builtins.rs).  *)
(*                                                                         *)
(* Rc<Env> pointers are frame ids: indices into the sequence `heap`.       *)
(* eval is a recursive operator that threads a machine record              *)
(*   m = [heap |-> frames, log |-> trace of the evaluation]                *)
(* and returns [res |-> Result, m |-> machine record after the call].      *)
(* The trace records, in order, every entry of eval, every return of eval  *)
(* and every call of Env::define made by the evaluator.                    *)
(***************************************************************************)
EXTENDS Integers, Sequences, FiniteSets, TLC

VARIABLES heap, env, nlines, out, op, sess, profile

vars == <<heap, env, nlines, out, op, sess, profile>>

(***************************************************************************)
(* Bounds of the model.                                                    *)
(***************************************************************************)
\* number of input lines one REPL session reads
MaxLines == 2
\* nested eval calls the host stack holds before it overflows
StackLimit == 10
\* frames and operations of the environment-API specification
MaxFrames == 3
\* sessions alive at the same time, and input lines they read together
MaxSessions == 2
MaxInputs == 3
\* bits of a Number (i64 in the source)
IntBits == 8
\* arguments of one call of a native function
MaxArgs == 3

(***************************************************************************)
(* ast.rs: expression trees.                                               *)
(***************************************************************************)
Num(n) == [expr |-> "Number", n |-> n]

Bool(b) == [expr |-> "Boolean", b |-> b]

Str(s) == [expr |-> "String", s |-> s]

Sym(s) == [expr |-> "Symbol", name |-> s]

List(items) == [expr |-> "List", items |-> items]

(***************************************************************************)
(* env.rs: values, errors and results.                                     *)
(***************************************************************************)
VNumber(n) == [value |-> "Number", n |-> n]

VBoolean(b) == [value |-> "Boolean", b |-> b]

VString(s) == [value |-> "String", s |-> s]

VFunction(f) == [value |-> "Function", f |-> f]

VLambda(params, body, e) == [value |-> "Lambda", params |-> params, body |-> body, env |-> e]

VList(items) == [value |-> "List", items |-> items]

UndefinedSymbol(s) == [error |-> "UndefinedSymbol", name |-> s]

TypeError(msg) == [error |-> "TypeError", msg |-> msg]

ArityMismatch == [error |-> "ArityMismatch"]

NotCallable == [error |-> "NotCallable"]

Other(msg) == [error |-> "Other", msg |-> msg]

Ok(v) == [kind |-> "Ok", val |-> v]

Err(e) == [kind |-> "Err", err |-> e]

\* a panic or a stack overflow: the process aborts, no Result is returned
Abort(msg) == [kind |-> "Abort", msg |-> msg]

IsOk(r) == r.kind = "Ok"

IsErr(r, k) == r.kind = "Err" /\ r.err.error = k

Some(v) == [some |-> TRUE, val |-> v]

None == [some |-> FALSE]

(***************************************************************************)
(* env.rs: frames.  A frame is [parent |-> id or 0, vars |-> name :> value]*)
(***************************************************************************)
NoParent == 0

EmptyVars == [k \in {} |-> 0]

Env_new(h) == [heap |-> Append(h, [parent |-> NoParent, vars |-> EmptyVars]), id |-> Len(h) + 1]

Env_extend(h, parent) == [heap |-> Append(h, [parent |-> parent, vars |-> EmptyVars]), id |-> Len(h) + 1]

\* mutant: define assigns to the nearest enclosing frame that already binds key
RECURSIVE Env_define_through(_, _, _, _)
Env_define_through(h, f, key, value) ==
    IF key \notin DOMAIN h[f].vars /\ h[f].parent # NoParent
           /\ \E a \in 1..Len(h) : a < f /\ key \in DOMAIN h[a].vars
       THEN Env_define_through(h, h[f].parent, key, value)
    ELSE [h EXCEPT ![f].vars = (key :> value) @@ @]

Env_define(h, f, key, value) == [h EXCEPT ![f].vars = (key :> value) @@ @]

\* mutant: the parent chain is searched before the frame's own bindings
RECURSIVE Env_get_parent_first(_, _, _)
Env_get_parent_first(h, f, key) ==
    LET up == IF h[f].parent = NoParent THEN None ELSE Env_get_parent_first(h, h[f].parent, key)
    IN  IF up.some THEN up
        ELSE IF key \in DOMAIN h[f].vars THEN Some(h[f].vars[key])
        ELSE None

RECURSIVE Env_get(_, _, _)
Env_get(h, f, key) ==
    IF key \in DOMAIN h[f].vars THEN Some(h[f].vars[key])
    ELSE IF h[f].parent = NoParent THEN None
    ELSE Env_get(h, h[f].parent, key)

(***************************************************************************)
(* env.rs: #[derive(PartialEq)] on Value, Lambda and Env.  Rc<Env> compares *)
(* the frames' contents (parent first, then vars), so the comparison       *)
(* recurses through captured frames; EqLimit is the depth at which the     *)
(* host stack overflows.  The outcome is "T", "F" or "overflow".           *)
(***************************************************************************)
EqLimit == 6

And3(a, b) == IF a = "T" THEN b ELSE a

RECURSIVE AllEq3(_)
AllEq3(rs) == IF rs = <<>> THEN "T" ELSE And3(Head(rs), AllEq3(Tail(rs)))

\* HashMap::eq visits the entries in an unspecified order and stops at the
\* first unequal one: an unequal entry and an overflowing one can go either way
MapEq3(rs) ==
    IF "F" \in rs /\ "overflow" \in rs THEN "unordered"
    ELSE IF "unordered" \in rs THEN "unordered"
    ELSE IF "F" \in rs THEN "F"
    ELSE IF "overflow" \in rs THEN "overflow"
    ELSE "T"

RECURSIVE Value_eq(_, _, _, _)
RECURSIVE Env_eq(_, _, _, _)
Value_eq(a, b, h, fuel) ==
    IF fuel = 0 THEN "overflow"
    ELSE IF a.value # b.value THEN "F"
    ELSE CASE a.value = "Number" -> IF a.n = b.n THEN "T" ELSE "F"
           [] a.value = "Boolean" -> IF a.b = b.b THEN "T" ELSE "F"
           [] a.value = "String" -> IF a.s = b.s THEN "T" ELSE "F"
           [] a.value = "Function" -> IF a.f = b.f THEN "T" ELSE "F"
           [] a.value = "Lambda" ->
                IF a.params # b.params \/ a.body # b.body THEN "F"
                ELSE Env_eq(a.env, b.env, h, fuel - 1)
           [] a.value = "List" ->
                IF Len(a.items) # Len(b.items) THEN "F"
                ELSE AllEq3([i \in 1..Len(a.items) |-> Value_eq(a.items[i], b.items[i], h, fuel - 1)])

Env_eq(e1, e2, h, fuel) ==
    IF fuel = 0 THEN "overflow"
    ELSE LET p == IF h[e1].parent = NoParent /\ h[e2].parent = NoParent THEN "T"
                  ELSE IF h[e1].parent = NoParent \/ h[e2].parent = NoParent THEN "F"
                  ELSE Env_eq(h[e1].parent, h[e2].parent, h, fuel - 1)
             v == IF DOMAIN h[e1].vars # DOMAIN h[e2].vars THEN "F"
                  ELSE MapEq3({Value_eq(h[e1].vars[k], h[e2].vars[k], h, fuel - 1) : k \in DOMAIN h[e1].vars})
         IN  And3(p, v)

(***************************************************************************)
(* builtins.rs                                                             *)
(***************************************************************************)
AllNumbers(args) == \A i \in 1..Len(args) : args[i].value = "Number"

\* the build profile: overflow-checks are on in a debug build and off in a release build
Profiles == {"debug", "release"}

MinInt == -(2 ^ (IntBits - 1))

MaxInt == 2 ^ (IntBits - 1) - 1

\* two's complement wrap-around of n
Wrap(n) == ((n - MinInt) % (2 ^ IntBits)) + MinInt

\* the result n of +, - or * on i64: a panic in a debug build when it overflows, wrapped otherwise
Checked(n) ==
    IF MinInt <= n /\ n <= MaxInt THEN Some(n)
    ELSE IF profile = "release" THEN Some(Wrap(n))
    ELSE None

\* Iterator::sum, a left fold from 0
RECURSIVE Sum(_, _)
Sum(acc, rest) ==
    IF rest = <<>> THEN Some(acc)
    ELSE LET r == Checked(acc + Head(rest).n)
         IN  IF r.some THEN Sum(r.val, Tail(rest)) ELSE None

\* Iterator::product, a left fold from 1
RECURSIVE Product(_, _)
Product(acc, rest) ==
    IF rest = <<>> THEN Some(acc)
    ELSE LET r == Checked(acc * Head(rest).n)
         IN  IF r.some THEN Product(r.val, Tail(rest)) ELSE None

\* i64 division truncates toward zero
TruncDiv(a, b) ==
    IF (a >= 0) = (b > 0) THEN (IF a >= 0 THEN a ELSE -a) \div (IF b > 0 THEN b ELSE -b)
    ELSE -((IF a >= 0 THEN a ELSE -a) \div (IF b > 0 THEN b ELSE -b))

RECURSIVE FoldSub(_, _)
FoldSub(acc, rest) ==
    IF rest = <<>> THEN Some(acc)
    ELSE LET r == Checked(acc - Head(rest).n)
         IN  IF r.some THEN FoldSub(r.val, Tail(rest)) ELSE None

\* i64::MIN / -1 panics in every build
RECURSIVE FoldDiv(_, _)
FoldDiv(acc, rest) ==
    IF rest = <<>> THEN Ok(VNumber(acc))
    ELSE IF Head(rest).n = 0 THEN Err(Other("Division by zero"))
    ELSE IF acc = MinInt /\ Head(rest).n = -1 THEN Abort("attempt to divide with overflow")
    ELSE FoldDiv(TruncDiv(acc, Head(rest).n), Tail(rest))

builtin_add(args) ==
    IF ~AllNumbers(args) THEN Err(TypeError("Expected number"))
    ELSE LET r == Sum(0, args)
         IN  IF r.some THEN Ok(VNumber(r.val)) ELSE Abort("attempt to add with overflow")

builtin_sub(args) ==
    IF ~AllNumbers(args) THEN Err(TypeError("Expected number"))
    ELSE IF args = <<>> THEN Err(Other("Expected at least one argument"))
    ELSE LET r == FoldSub(Head(args).n, Tail(args))
         IN  IF r.some THEN Ok(VNumber(r.val)) ELSE Abort("attempt to subtract with overflow")

builtin_mul(args) ==
    IF ~AllNumbers(args) THEN Err(TypeError("Expected number"))
    ELSE LET r == Product(1, args)
         IN  IF r.some THEN Ok(VNumber(r.val)) ELSE Abort("attempt to multiply with overflow")

builtin_div(args) ==
    IF ~AllNumbers(args) THEN Err(TypeError("Expected number"))
    ELSE IF args = <<>> THEN Err(Other("Expected at least one argument"))
    ELSE FoldDiv(Head(args).n, Tail(args))

builtin_eq(args, h) ==
    IF Len(args) < 2 THEN Ok(VBoolean(TRUE))
    ELSE LET r == MapEq3({Value_eq(args[i], args[1], h, EqLimit) : i \in 1..Len(args)})
         IN  IF r = "T" THEN Ok(VBoolean(TRUE))
             ELSE IF r = "F" THEN Ok(VBoolean(FALSE))
             ELSE Abort("stack overflow")

builtin_lt(args) ==
    IF ~AllNumbers(args) THEN Err(TypeError("Expected number"))
    ELSE Ok(VBoolean(\A i \in 1..(Len(args) - 1) : args[i].n < args[i + 1].n))

builtin_gt(args) ==
    IF ~AllNumbers(args) THEN Err(TypeError("Expected number"))
    ELSE Ok(VBoolean(\A i \in 1..(Len(args) - 1) : args[i].n > args[i + 1].n))

\* mutant: and looks at every argument before it decides
builtin_and_strict(args) ==
    IF \E i \in 1..Len(args) : args[i].value # "Boolean" THEN Err(TypeError("Expected boolean"))
    ELSE Ok(VBoolean(\A i \in 1..Len(args) : args[i].b))

RECURSIVE builtin_and(_)
builtin_and(args) ==
    IF args = <<>> THEN Ok(VBoolean(TRUE))
    ELSE IF Head(args).value # "Boolean" THEN Err(TypeError("Expected boolean"))
    ELSE IF ~Head(args).b THEN Ok(VBoolean(FALSE))
    ELSE builtin_and(Tail(args))

RECURSIVE builtin_or(_)
builtin_or(args) ==
    IF args = <<>> THEN Ok(VBoolean(FALSE))
    ELSE IF Head(args).value # "Boolean" THEN Err(TypeError("Expected boolean"))
    ELSE IF Head(args).b THEN Ok(VBoolean(TRUE))
    ELSE builtin_or(Tail(args))

builtin_not(args) ==
    IF Len(args) # 1 THEN Err(ArityMismatch)
    ELSE IF args[1].value # "Boolean" THEN Err(TypeError("Expected boolean"))
    ELSE Ok(VBoolean(~args[1].b))

builtin_list(args) == Ok(VList(args))

builtin_car(args) ==
    IF Len(args) = 1 /\ args[1].value = "List" /\ args[1].items # <<>> THEN Ok(Head(args[1].items))
    ELSE Err(TypeError("Expected non-empty list"))

builtin_cdr(args) ==
    IF Len(args) = 1 /\ args[1].value = "List" /\ args[1].items # <<>> THEN Ok(VList(Tail(args[1].items)))
    ELSE Err(TypeError("Expected non-empty list"))

\* mutant: cons puts the value behind the elements of the list
builtin_cons_behind(args) ==
    IF Len(args) = 2 /\ args[2].value = "List" THEN Ok(VList(Append(args[2].items, args[1])))
    ELSE Err(TypeError("Expected value and list"))

builtin_cons(args) ==
    IF Len(args) = 2 /\ args[2].value = "List" THEN Ok(VList(<<args[1]>> \o args[2].items))
    ELSE Err(TypeError("Expected value and list"))

\* Value::Function(f) => f(arg_vals): the call through the fn pointer
CallFunction(f, args, h) ==
    CASE f = "+" -> builtin_add(args)
      [] f = "-" -> builtin_sub(args)
      [] f = "*" -> builtin_mul(args)
      [] f = "/" -> builtin_div(args)
      [] f = "=" -> builtin_eq(args, h)
      [] f = "<" -> builtin_lt(args)
      [] f = ">" -> builtin_gt(args)
      [] f = "and" -> builtin_and(args)
      [] f = "or" -> builtin_or(args)
      [] f = "not" -> builtin_not(args)
      [] f = "list" -> builtin_list(args)
      [] f = "car" -> builtin_car(args)
      [] f = "cdr" -> builtin_cdr(args)
      [] f = "cons" -> builtin_cons(args)

BuiltinNames == <<"+", "-", "*", "/", "=", "<", ">", "and", "or", "not", "list", "car", "cdr", "cons">>

RECURSIVE DefineAll(_, _, _)
DefineAll(h, f, names) ==
    IF names = <<>> THEN h
    ELSE DefineAll(Env_define(h, f, Head(names), VFunction(Head(names))), f, Tail(names))

\* mutant: one process-wide environment, created by the first call and returned by every later one
default_env_global(h) ==
    IF h # <<>> THEN [heap |-> h, id |-> 1]
    ELSE LET e == Env_new(h)
         IN  [heap |-> DefineAll(e.heap, e.id, BuiltinNames), id |-> e.id]

default_env(h) ==
    LET e == Env_new(h)
    IN  [heap |-> DefineAll(e.heap, e.id, BuiltinNames), id |-> e.id]

(***************************************************************************)
(* eval.rs.  list[i] of the Rust code is list[i + 1] here.  d is the depth *)
(* of the eval call on the host stack.                                     *)
(***************************************************************************)
R(res, m) == [res |-> res, m |-> m]

\* trace of the evaluation: entry of an eval call, its return, a call of Env::define
Enter(m, expr, e, d) == [m EXCEPT !.log = Append(@, [ev |-> "enter", expr |-> expr, env |-> e, d |-> d])]

Exit(r, d) ==
    IF r.res.kind = "Abort" THEN r
    ELSE [r EXCEPT !.m.log = Append(@, [ev |-> "exit", res |-> r.res, d |-> d])]

DefineIn(m, f, key, value) ==
    [heap |-> Env_define(m.heap, f, key, value),
     log |-> Append(m.log, [ev |-> "define", env |-> f, name |-> key, val |-> value])]

IsForm(list, kw) == list[1].expr = "Symbol" /\ list[1].name = kw

RECURSIVE eval(_, _, _, _)

\* mutant: a define inside a nested frame writes to the enclosing frame
eval_define_outer(list, e, m, d) ==
    IF Len(list) < 2 THEN R(Abort("index out of bounds"), m)
    ELSE IF list[2].expr # "Symbol" THEN R(Err(TypeError("Expected symbol after define")), m)
    ELSE IF Len(list) < 3 THEN R(Abort("index out of bounds"), m)
    ELSE LET r == eval(list[3], e, m, d + 1)
             target == IF r.m.heap[e].parent = NoParent THEN e ELSE r.m.heap[e].parent
         IN  IF ~IsOk(r.res) THEN r
             ELSE R(Ok(r.res.val), DefineIn(r.m, target, list[2].name, r.res.val))

\* mutant: the value expression is evaluated before the name is checked
eval_define_eager(list, e, m, d) ==
    IF Len(list) < 3 THEN R(Abort("index out of bounds"), m)
    ELSE LET r == eval(list[3], e, m, d + 1)
         IN  IF ~IsOk(r.res) THEN r
             ELSE IF list[2].expr # "Symbol" THEN R(Err(TypeError("Expected symbol after define")), r.m)
             ELSE R(Ok(r.res.val), DefineIn(r.m, e, list[2].name, r.res.val))

eval_define(list, e, m, d) ==
    IF Len(list) < 2 THEN R(Abort("index out of bounds"), m)
    ELSE IF list[2].expr # "Symbol" THEN R(Err(TypeError("Expected symbol after define")), m)
    ELSE IF Len(list) < 3 THEN R(Abort("index out of bounds"), m)
    ELSE LET r == eval(list[3], e, m, d + 1)
         IN  IF ~IsOk(r.res) THEN r
             ELSE R(Ok(r.res.val), DefineIn(r.m, e, list[2].name, r.res.val))

\* mutant: the closure captures a copy of the current frame
eval_lambda_copy(list, e, m, d) ==
    IF Len(list) < 2 THEN R(Abort("index out of bounds"), m)
    ELSE IF list[2].expr # "List" THEN R(Err(TypeError("Expected list of params")), m)
    ELSE IF \E i \in 1..Len(list[2].items) : list[2].items[i].expr # "Symbol"
         THEN R(Err(TypeError("Expected symbol in parameter list")), m)
    ELSE IF Len(list) < 3 THEN R(Abort("index out of bounds"), m)
    ELSE R(Ok(VLambda([i \in 1..Len(list[2].items) |-> list[2].items[i].name], list[3], Len(m.heap) + 1)),
           [m EXCEPT !.heap = Append(@, m.heap[e])])

eval_lambda(list, e, m, d) ==
    IF Len(list) < 2 THEN R(Abort("index out of bounds"), m)
    ELSE IF list[2].expr # "List" THEN R(Err(TypeError("Expected list of params")), m)
    ELSE IF \E i \in 1..Len(list[2].items) : list[2].items[i].expr # "Symbol"
         THEN R(Err(TypeError("Expected symbol in parameter list")), m)
    ELSE IF Len(list) < 3 THEN R(Abort("index out of bounds"), m)
    ELSE R(Ok(VLambda([i \in 1..Len(list[2].items) |-> list[2].items[i].name], list[3], e)), m)

\* mutant: an error of a statement that is not the last one is dropped
RECURSIVE begin_loop_continue(_, _, _, _, _, _)
begin_loop_continue(list, i, result, e, m, d) ==
    IF i > Len(list) THEN R(Ok(result), m)
    ELSE LET r == eval(list[i], e, m, d + 1)
         IN  IF ~IsOk(r.res) /\ (i = Len(list) \/ r.res.kind = "Abort") THEN r
             ELSE begin_loop_continue(list, i + 1, IF IsOk(r.res) THEN r.res.val ELSE result, e, r.m, d)

\* for expr in &list[1..] { result = eval(expr, env.clone())?; }
RECURSIVE begin_loop(_, _, _, _, _, _)
begin_loop(list, i, result, e, m, d) ==
    IF i > Len(list) THEN R(Ok(result), m)
    ELSE LET r == eval(list[i], e, m, d + 1)
         IN  IF ~IsOk(r.res) THEN r
             ELSE begin_loop(list, i + 1, r.res.val, e, r.m, d)

\* mutant: begin evaluates its statements in a new child frame
eval_begin_scoped(list, e, m, d) ==
    LET x == Env_extend(m.heap, e)
    IN  begin_loop(list, 2, VBoolean(FALSE), x.id, [m EXCEPT !.heap = x.heap], d)

eval_begin(list, e, m, d) == begin_loop(list, 2, VBoolean(FALSE), e, m, d)

\* mutant: both branches are evaluated, the value of the chosen one is returned
eval_if_both(list, e, m, d) ==
    IF Len(list) # 4 THEN R(Err(ArityMismatch), m)
    ELSE LET c == eval(list[2], e, m, d + 1)
             t == eval(list[3], e, c.m, d + 1)
             f == eval(list[4], e, t.m, d + 1)
         IN  IF ~IsOk(c.res) THEN c
             ELSE IF c.res.val.value = "Boolean" /\ c.res.val.b THEN R(t.res, f.m)
             ELSE IF c.res.val.value = "Boolean" /\ ~c.res.val.b THEN f
             ELSE R(Err(TypeError("Expected boolean in if condition")), c.m)

\* mutant: implicit truthiness, every value but false selects the then branch
eval_if_truthy(list, e, m, d) ==
    IF Len(list) # 4 THEN R(Err(ArityMismatch), m)
    ELSE LET c == eval(list[2], e, m, d + 1)
         IN  IF ~IsOk(c.res) THEN c
             ELSE IF c.res.val.value = "Boolean" /\ ~c.res.val.b THEN eval(list[4], e, c.m, d + 1)
             ELSE eval(list[3], e, c.m, d + 1)

eval_if(list, e, m, d) ==
    IF Len(list) # 4 THEN R(Err(ArityMismatch), m)
    ELSE LET c == eval(list[2], e, m, d + 1)
         IN  IF ~IsOk(c.res) THEN c
             ELSE IF c.res.val.value = "Boolean" /\ c.res.val.b THEN eval(list[3], e, c.m, d + 1)
             ELSE IF c.res.val.value = "Boolean" /\ ~c.res.val.b THEN eval(list[4], e, c.m, d + 1)
             ELSE R(Err(TypeError("Expected boolean in if condition")), c.m)

\* mutant: sequential bindings, every value is evaluated in the let's own frame
RECURSIVE let_loop_sequential(_, _, _, _, _, _, _)
let_loop_sequential(list, bindings, i, e, new_env, m, d) ==
    IF i > Len(bindings) THEN eval(list[3], new_env, m, d + 1)
    ELSE LET pair == bindings[i]
         IN  IF ~(pair.expr = "List" /\ Len(pair.items) = 2)
                 THEN R(Err(TypeError("Invalid binding in let")), m)
             ELSE IF pair.items[1].expr # "Symbol"
                 THEN R(Err(TypeError("Expected symbol in let binding")), m)
             ELSE LET r == eval(pair.items[2], new_env, m, d + 1)
                  IN  IF ~IsOk(r.res) THEN r
                      ELSE let_loop_sequential(list, bindings, i + 1, e, new_env,
                                               DefineIn(r.m, new_env, pair.items[1].name, r.res.val), d)

\* for pair in bindings { ... }  followed by  eval(&list[2], new_env)
RECURSIVE let_loop(_, _, _, _, _, _, _)
let_loop(list, bindings, i, e, new_env, m, d) ==
    IF i > Len(bindings) THEN eval(list[3], new_env, m, d + 1)
    ELSE LET pair == bindings[i]
         IN  IF ~(pair.expr = "List" /\ Len(pair.items) = 2)
                 THEN R(Err(TypeError("Invalid binding in let")), m)
             ELSE IF pair.items[1].expr # "Symbol"
                 THEN R(Err(TypeError("Expected symbol in let binding")), m)
             ELSE LET r == eval(pair.items[2], e, m, d + 1)
                  IN  IF ~IsOk(r.res) THEN r
                      ELSE let_loop(list, bindings, i + 1, e, new_env,
                                    DefineIn(r.m, new_env, pair.items[1].name, r.res.val), d)

\* mutant: no child frame, the names are bound in the enclosing frame
eval_let_same_frame(list, e, m, d) ==
    IF Len(list) # 3 THEN R(Err(ArityMismatch), m)
    ELSE IF list[2].expr # "List" THEN R(Err(TypeError("Expected list of bindings in let")), m)
    ELSE let_loop(list, list[2].items, 1, e, e, m, d)

eval_let(list, e, m, d) ==
    IF Len(list) # 3 THEN R(Err(ArityMismatch), m)
    ELSE IF list[2].expr # "List" THEN R(Err(TypeError("Expected list of bindings in let")), m)
    ELSE LET x == Env_extend(m.heap, e)
         IN  let_loop(list, list[2].items, 1, e, x.id, [m EXCEPT !.heap = x.heap], d)

\* list[1..].iter().map(|arg| eval(arg, env.clone())).collect::<Result<Vec<_>, _>>()?
\* mutant: the operands are evaluated right to left
RECURSIVE eval_args_reversed(_, _, _, _, _, _)
eval_args_reversed(list, i, vals, e, m, d) ==
    IF i > Len(list) THEN R(Ok(VList(vals)), m)
    ELSE LET r == eval(list[Len(list) + 2 - i], e, m, d + 1)
         IN  IF ~IsOk(r.res) THEN r
             ELSE eval_args_reversed(list, i + 1, <<r.res.val>> \o vals, e, r.m, d)

RECURSIVE eval_args(_, _, _, _, _, _)
eval_args(list, i, vals, e, m, d) ==
    IF i > Len(list) THEN R(Ok(VList(vals)), m)
    ELSE LET r == eval(list[i], e, m, d + 1)
         IN  IF ~IsOk(r.res) THEN r
             ELSE eval_args(list, i + 1, Append(vals, r.res.val), e, r.m, d)

\* for (k, v) in l.params.iter().zip(arg_vals) { new_env.define(k, v); }
RECURSIVE bind_params(_, _, _, _, _)
bind_params(m, f, params, arg_vals, i) ==
    IF i > Len(params) THEN m
    ELSE bind_params(DefineIn(m, f, params[i], arg_vals[i]), f, params, arg_vals, i + 1)

\* mutant: dynamic scoping, the call frame extends the caller's frame
eval_application_dynamic(list, e, m, d) ==
    LET fv == eval(list[1], e, m, d + 1)
    IN  IF ~IsOk(fv.res) THEN fv
        ELSE LET av == eval_args(list, 2, <<>>, e, fv.m, d)
             IN  IF ~IsOk(av.res) THEN av
                 ELSE LET func_val == fv.res.val
                          arg_vals == av.res.val.items
                      IN  IF func_val.value = "Function"
                              THEN R(CallFunction(func_val.f, arg_vals, av.m.heap), av.m)
                          ELSE IF func_val.value = "Lambda"
                              THEN IF Len(func_val.params) # Len(arg_vals)
                                       THEN R(Err(ArityMismatch), av.m)
                                   ELSE LET x == Env_extend(av.m.heap, e)
                                            m1 == bind_params([av.m EXCEPT !.heap = x.heap], x.id,
                                                              func_val.params, arg_vals, 1)
                                        IN  eval(func_val.body, x.id, m1, d + 1)
                          ELSE R(Err(NotCallable), av.m)

\* mutant: arguments beyond the parameters are ignored
eval_application_lenient(list, e, m, d) ==
    LET fv == eval(list[1], e, m, d + 1)
    IN  IF ~IsOk(fv.res) THEN fv
        ELSE LET av == eval_args(list, 2, <<>>, e, fv.m, d)
             IN  IF ~IsOk(av.res) THEN av
                 ELSE LET func_val == fv.res.val
                          arg_vals == av.res.val.items
                      IN  IF func_val.value = "Function"
                              THEN R(CallFunction(func_val.f, arg_vals, av.m.heap), av.m)
                          ELSE IF func_val.value = "Lambda"
                              THEN IF Len(func_val.params) > Len(arg_vals)
                                       THEN R(Err(ArityMismatch), av.m)
                                   ELSE LET x == Env_extend(av.m.heap, func_val.env)
                                            m1 == bind_params([av.m EXCEPT !.heap = x.heap], x.id,
                                                              func_val.params, arg_vals, 1)
                                        IN  eval(func_val.body, x.id, m1, d + 1)
                          ELSE R(Err(NotCallable), av.m)

\* mutant: the parameters are bound in the captured frame itself
eval_application_shared(list, e, m, d) ==
    LET fv == eval(list[1], e, m, d + 1)
    IN  IF ~IsOk(fv.res) THEN fv
        ELSE LET av == eval_args(list, 2, <<>>, e, fv.m, d)
             IN  IF ~IsOk(av.res) THEN av
                 ELSE LET func_val == fv.res.val
                          arg_vals == av.res.val.items
                      IN  IF func_val.value = "Function"
                              THEN R(CallFunction(func_val.f, arg_vals, av.m.heap), av.m)
                          ELSE IF func_val.value = "Lambda"
                              THEN IF Len(func_val.params) # Len(arg_vals)
                                       THEN R(Err(ArityMismatch), av.m)
                                   ELSE LET x == [heap |-> av.m.heap, id |-> func_val.env]
                                            m1 == bind_params([av.m EXCEPT !.heap = x.heap], x.id,
                                                              func_val.params, arg_vals, 1)
                                        IN  eval(func_val.body, x.id, m1, d + 1)
                          ELSE R(Err(NotCallable), av.m)

eval_application(list, e, m, d) ==
    LET fv == eval(list[1], e, m, d + 1)
    IN  IF ~IsOk(fv.res) THEN fv
        ELSE LET av == eval_args(list, 2, <<>>, e, fv.m, d)
             IN  IF ~IsOk(av.res) THEN av
                 ELSE LET func_val == fv.res.val
                          arg_vals == av.res.val.items
                      IN  IF func_val.value = "Function"
                              THEN R(CallFunction(func_val.f, arg_vals, av.m.heap), av.m)
                          ELSE IF func_val.value = "Lambda"
                              THEN IF Len(func_val.params) # Len(arg_vals)
                                       THEN R(Err(ArityMismatch), av.m)
                                   ELSE LET x == Env_extend(av.m.heap, func_val.env)
                                            m1 == bind_params([av.m EXCEPT !.heap = x.heap], x.id,
                                                              func_val.params, arg_vals, 1)
                                        IN  eval(func_val.body, x.id, m1, d + 1)
                          ELSE R(Err(NotCallable), av.m)

\* mutant: a keyword that the environment binds no longer selects its form
eval_dispatch_by_lookup(expr, e, m, d) ==
    CASE expr.expr = "Number" -> R(Ok(VNumber(expr.n)), m)
      [] expr.expr = "Boolean" -> R(Ok(VBoolean(expr.b)), m)
      [] expr.expr = "String" -> R(Ok(VString(expr.s)), m)
      [] expr.expr = "Symbol" ->
           LET g == Env_get(m.heap, e, expr.name)
           IN  IF g.some THEN R(Ok(g.val), m) ELSE R(Err(UndefinedSymbol(expr.name)), m)
      [] expr.expr = "List" ->
           IF expr.items = <<>> THEN R(Ok(VList(<<>>)), m)
           ELSE IF expr.items[1].expr = "Symbol" /\ Env_get(m.heap, e, expr.items[1].name).some
               THEN eval_application(expr.items, e, m, d)
           ELSE IF IsForm(expr.items, "define") THEN eval_define(expr.items, e, m, d)
           ELSE IF IsForm(expr.items, "lambda") THEN eval_lambda(expr.items, e, m, d)
           ELSE IF IsForm(expr.items, "begin") THEN eval_begin(expr.items, e, m, d)
           ELSE IF IsForm(expr.items, "if") THEN eval_if(expr.items, e, m, d)
           ELSE IF IsForm(expr.items, "let") THEN eval_let(expr.items, e, m, d)
           ELSE eval_application(expr.items, e, m, d)

eval_dispatch(expr, e, m, d) ==
    CASE expr.expr = "Number" -> R(Ok(VNumber(expr.n)), m)
      [] expr.expr = "Boolean" -> R(Ok(VBoolean(expr.b)), m)
      [] expr.expr = "String" -> R(Ok(VString(expr.s)), m)
      [] expr.expr = "Symbol" ->
           LET g == Env_get(m.heap, e, expr.name)
           IN  IF g.some THEN R(Ok(g.val), m) ELSE R(Err(UndefinedSymbol(expr.name)), m)
      [] expr.expr = "List" ->
           IF expr.items = <<>> THEN R(Ok(VList(<<>>)), m)
           ELSE IF IsForm(expr.items, "define") THEN eval_define(expr.items, e, m, d)
           ELSE IF IsForm(expr.items, "lambda") THEN eval_lambda(expr.items, e, m, d)
           ELSE IF IsForm(expr.items, "begin") THEN eval_begin(expr.items, e, m, d)
           ELSE IF IsForm(expr.items, "if") THEN eval_if(expr.items, e, m, d)
           ELSE IF IsForm(expr.items, "let") THEN eval_let(expr.items, e, m, d)
           ELSE eval_application(expr.items, e, m, d)

eval(expr, e, m, d) ==
    IF d > StackLimit THEN R(Abort("stack overflow"), m)
    ELSE Exit(eval_dispatch(expr, e, Enter(m, expr, e, d), d), d)

(***************************************************************************)
(* Shorthands for building input expressions.                              *)
(***************************************************************************)
Define(n, x) == List(<<Sym("define"), Sym(n), x>>)

Lambda(ps, body) == List(<<Sym("lambda"), List([i \in 1..Len(ps) |-> Sym(ps[i])]), body>>)

Begin(xs) == List(<<Sym("begin")>> \o xs)

If(c, t, f) == List(<<Sym("if"), c, t, f>>)

Let(bs, body) == List(<<Sym("let"), List([i \in 1..Len(bs) |-> List(<<Sym(bs[i][1]), bs[i][2]>>)]), body>>)

App(f, args) == List(<<f>> \o args)

(***************************************************************************)
(* main.rs: the REPL.  One session, one root frame from default_env(); each*)
(* step reads one line (already parsed) and evaluates it in the root frame.*)
(***************************************************************************)
NoOutput == [line |-> List(<<>>), res |-> Ok(VList(<<>>)), log |-> <<>>]

\* lines that define variables and closures for later lines
SetupLines ==
    { Define("x", Num(1)),
      Define("x", Num(2)),
      Define("f", Lambda(<<>>, Sym("x"))),
      Define("g", Let(<< <<"x", Num(5)>> >>, Lambda(<<>>, Sym("x")))),
      Define("h", Lambda(<<"x">>, Sym("x"))),
      Define("setx", Lambda(<<>>, Define("x", Num(7)))),
      Define("k", Let(<< <<"z", Num(3)>> >>, Lambda(<<>>, Sym("x")))),
      Begin(<<Define("f", Lambda(<<>>, Sym("x"))), Define("x", Num(1))>>) }

\* closure calls from the root frame and from inside a let
ScopeLines ==
    { App(Sym("f"), <<>>),
      App(Sym("g"), <<>>),
      App(Sym("h"), <<Num(3)>>),
      App(Sym("setx"), <<>>),
      App(Sym("k"), <<>>),
      Let(<< <<"x", Num(9)>> >>, App(Sym("f"), <<>>)),
      Let(<< <<"x", Num(9)>> >>, App(Sym("g"), <<>>)),
      Let(<< <<"x", Num(9)>> >>, App(Sym("h"), <<Num(3)>>)),
      Let(<< <<"x", Num(9)>> >>, App(Sym("setx"), <<>>)),
      Let(<< <<"x", Num(9)>> >>, App(Sym("k"), <<>>)) }

LetLines ==
    { Let(<< <<"x", Num(1)>>, <<"y", Sym("x")>> >>, Sym("y")),
      Let(<< <<"x", Sym("x")>> >>, Sym("x")),
      Let(<< <<"x", Num(3)>>, <<"k", Lambda(<<>>, Sym("x"))>> >>, App(Sym("k"), <<>>)),
      Let(<< <<"x", Num(3)>> >>, Define("x", Num(4))),
      Let(<< <<"z", Num(3)>> >>, Define("y", Num(4))),
      Let(<< <<"x", Num(3)>> >>, Sym("nope")),
      Let(<< <<"x", Define("x", Num(5))>> >>, Sym("x")),
      Let(<< <<"x", Num(1)>> >>, Let(<< <<"x", Num(2)>> >>, Sym("x"))) }

IfLines ==
    { If(Bool(TRUE), Define("x", Num(42)), Define("x", Num(99))),
      If(Bool(FALSE), Define("x", Num(42)), Define("x", Num(99))),
      If(App(Sym("<"), <<Num(1), Num(2)>>), Num(1), Sym("nope")),
      If(Sym("x"), Define("y", Num(1)), Define("y", Num(2))),
      If(Num(5), Define("x", Num(42)), Define("x", Num(99))),
      If(Str("s"), Define("x", Num(42)), Define("x", Num(99))),
      If(List(<<>>), Define("x", Num(42)), Define("x", Num(99))),
      If(Lambda(<<>>, Num(1)), Define("x", Num(42)), Define("x", Num(99))),
      If(Sym("+"), Define("x", Num(42)), Define("x", Num(99))),
      List(<<Sym("if")>>),
      List(<<Sym("if"), Define("x", Num(42))>>),
      List(<<Sym("if"), Bool(TRUE), Define("x", Num(42))>>),
      List(<<Sym("if"), Bool(TRUE), Define("x", Num(42)), Define("x", Num(99)), Define("x", Num(100))>>) }

\* lines with a failing sub-expression between two side effects
ErrLines ==
    { Begin(<<Define("x", Num(3)), Sym("nope"), Define("x", Num(4))>>),
      App(Sym("+"), <<Define("x", Num(3)), Sym("nope"), Define("x", Num(4))>>),
      Let(<< <<"a", Define("x", Num(3))>>, <<"b", Sym("nope")>>, <<"c", Define("x", Num(4))>> >>,
          Define("x", Num(6))),
      App(Sym("h"), <<Sym("nope")>>),
      App(Sym("nope"), <<Define("x", Num(3))>>),
      Define("x", Sym("nope")),
      App(Lambda(<<"p">>, Begin(<<Define("q", Sym("p")), Sym("nope"), Define("q", Num(2))>>)), <<Num(1)>>) }

\* a function defined with define that calls itself
LoopLine ==
    Begin(<<Define("loop", Lambda(<<"k">>, If(App(Sym("="), <<Sym("k"), Num(0)>>), Num(0),
                                              App(Sym("loop"), <<Num(0)>>)))),
            App(Sym("loop"), <<Num(1)>>)>>)

\* special-form lists with fewer operands than their shape
MalformedLines ==
    { List(<<Sym("define")>>),
      List(<<Sym("define"), Sym("x")>>),
      List(<<Sym("define"), Num(5)>>),
      List(<<Sym("lambda")>>),
      List(<<Sym("lambda"), List(<<Sym("x")>>)>>),
      Begin(<<Define("y", Num(1)), List(<<Sym("define"), Sym("x")>>)>>) }

\* define forms: nested, with a name that is no symbol, with a failing value expression
DefineLines ==
    { Define("y", Define("x", Num(3))),
      List(<<Sym("define"), Num(5), Define("x", Num(3))>>),
      List(<<Sym("define"), Str("x"), Define("x", Num(3))>>),
      List(<<Sym("define"), List(<<Sym("x")>>), Define("x", Num(3))>>),
      Define("x", Begin(<<Define("x", Num(3)), Sym("nope")>>)),
      Define("x", Begin(<<Define("y", Num(3)), Sym("nope")>>)),
      Let(<< <<"x", Num(3)>> >>, Define("y", Sym("x"))) }

\* applications whose operator and operands have side effects
CallLines ==
    { App(Sym("list"), <<Define("x", Num(3)), Define("x", Num(4)), Sym("x")>>),
      App(Sym("-"), <<Num(5), Num(3)>>),
      App(Begin(<<Define("x", Num(5)), Lambda(<<"a", "b">>, App(Sym("-"), <<Sym("a"), Sym("b")>>))>>),
          <<Sym("x"), Define("x", Num(3))>>),
      App(Lambda(<<"a", "b">>, Sym("a")), <<Num(3), Num(4)>>),
      App(Lambda(<<"a">>, Num(0)), <<Define("x", Num(8))>>),
      App(Sym("h"), <<Define("x", Num(3)), Define("x", Num(4))>>),
      App(Num(5), <<Define("x", Num(3))>>) }

\* applications of closures with the wrong number of arguments and of values that are no functions
DispatchLines ==
    { App(Lambda(<<"a">>, Define("x", Num(9))), <<>>),
      App(Lambda(<<>>, Define("x", Num(9))), <<Num(3)>>),
      App(Bool(TRUE), <<Num(3), Num(4)>>),
      App(Str("s"), <<>>),
      App(List(<<>>), <<Num(3)>>),
      App(App(Sym("list"), <<Num(3)>>), <<>>) }

\* (lambda (x) (lambda (y) (+ x y)))
AdderFn == Lambda(<<"x">>, Lambda(<<"y">>, App(Sym("+"), <<Sym("x"), Sym("y")>>)))

\* closures returned by two calls of adder, used after the other call and a define of x
AdderLines ==
    { Begin(<<Define("adder", AdderFn), Define("a3", App(Sym("adder"), <<Num(3)>>))>>),
      Define("a4", App(Sym("adder"), <<Num(4)>>)),
      Begin(<<Define("a4", App(Sym("adder"), <<Num(4)>>)), Define("x", Num(2)),
              App(Sym("list"), <<App(Sym("a3"), <<Num(4)>>), App(Sym("a4"), <<Num(4)>>)>>)>>),
      App(Sym("a3"), <<Num(4)>>),
      App(App(Sym("adder"), <<Num(3)>>), <<Num(4)>>) }

\* begin forms: empty, with defines read by later statements, inside a let
BeginLines ==
    { Begin(<<>>),
      Begin(<<Define("x", Num(3)), Define("y", Num(4))>>),
      Begin(<<Define("x", Num(3)), Define("y", Sym("x")), App(Sym("list"), <<Sym("x"), Sym("y")>>)>>),
      Let(<< <<"x", Num(3)>> >>, Begin(<<Define("x", Num(4)), Sym("x")>>)) }

\* applications of =: to no, one and several values of every variant, and to closures
EqLines ==
    { App(Sym("="), <<>>),
      App(Sym("="), <<Sym("f")>>),
      App(Sym("="), <<Num(1), Num(1), Num(1)>>),
      App(Sym("="), <<Num(1), Num(1), Num(2)>>),
      App(Sym("="), <<Num(1), Bool(TRUE)>>),
      App(Sym("="), <<App(Sym("list"), <<Num(1), Str("a")>>), App(Sym("list"), <<Num(1), Str("a")>>)>>),
      App(Sym("="), <<Lambda(<<>>, Num(1)), Lambda(<<>>, Num(1))>>),
      App(Sym("="), <<Sym("f"), Sym("f")>>) }

Lines ==
    {LoopLine} \cup SetupLines \cup ScopeLines \cup LetLines \cup IfLines \cup ErrLines
        \cup MalformedLines \cup DefineLines \cup CallLines \cup DispatchLines
        \cup AdderLines \cup BeginLines \cup EqLines

Init ==
    /\ LET d == default_env(<<>>) IN heap = d.heap /\ env = d.id
    /\ nlines = 0
    /\ out = NoOutput
    /\ op = [name |-> "none"]
    /\ sess = <<>>
    /\ profile \in Profiles

EvalLine(line) ==
    /\ nlines < MaxLines
    /\ out.res.kind # "Abort"
    /\ \E r \in {eval(line, env, [heap |-> heap, log |-> <<>>], 1)} :
           /\ heap' = r.m.heap
           /\ out' = [line |-> line, res |-> r.res, log |-> r.m.log]
    /\ nlines' = nlines + 1
    /\ UNCHANGED <<env, op, sess, profile>>

Next == \E line \in Lines : EvalLine(line)

Spec == Init /\ [][Next]_vars

(***************************************************************************)
(* The REPL reading lines that build and take apart lists.                 *)
(***************************************************************************)
\* (cons 0 l)
Cons0L == App(Sym("cons"), <<Num(0), Sym("l")>>)

ListLines ==
    { Define("l", App(Sym("list"), <<Num(1), Num(2)>>)),
      Define("e", App(Sym("list"), <<>>)),
      Define("l", Cons0L),
      Sym("l"),
      Cons0L,
      App(Sym("cons"), <<Sym("l"), Sym("l")>>),
      App(Sym("cons"), <<Lambda(<<>>, Num(1)), Sym("e")>>),
      App(Sym("car"), <<Cons0L>>),
      App(Sym("cdr"), <<Cons0L>>),
      App(Sym("list"), <<App(Sym("car"), <<Sym("l")>>), App(Sym("cdr"), <<Sym("l")>>), Sym("l")>>),
      App(Sym("cdr"), <<App(Sym("cdr"), <<App(Sym("cdr"), <<Sym("l")>>)>>)>>),
      App(Sym("car"), <<Sym("e")>>),
      App(Sym("cdr"), <<Sym("e")>>),
      App(Sym("car"), <<>>),
      App(Sym("car"), <<Num(5)>>),
      App(Sym("car"), <<Sym("l"), Sym("l")>>),
      App(Sym("cdr"), <<>>),
      App(Sym("cdr"), <<Str("s")>>),
      App(Sym("cdr"), <<Sym("l"), Sym("e")>>),
      App(Sym("cons"), <<>>),
      App(Sym("cons"), <<Num(1)>>),
      App(Sym("cons"), <<Num(1), Num(2)>>),
      App(Sym("cons"), <<Sym("l"), Num(1)>>),
      App(Sym("cons"), <<Num(1), Sym("l"), Sym("e")>>) }

NextLists == \E line \in ListLines : EvalLine(line)

SpecLists == Init /\ [][NextLists]_vars

(***************************************************************************)
(* The REPL reading special forms of every shape.                          *)
(***************************************************************************)
\* (define y 1): a body or operand that leaves a mark when it is evaluated
Mark == Define("y", Num(1))

\* lambda and let forms with operands of the right and of every wrong shape
ShapeLines ==
    { Lambda(<<"x">>, Mark),
      Lambda(<<>>, Sym("nope")),
      List(<<Sym("lambda"), List(<<Sym("x")>>), Mark, Mark>>),
      List(<<Sym("lambda"), Num(5), Mark>>),
      List(<<Sym("lambda"), Sym("x"), Mark>>),
      List(<<Sym("lambda"), Num(5)>>),
      List(<<Sym("lambda"), List(<<Num(1)>>), Mark>>),
      List(<<Sym("lambda"), List(<<Sym("x"), Str("y")>>), Mark>>),
      List(<<Sym("lambda"), List(<<List(<<Sym("x")>>)>>), Mark>>),
      List(<<Sym("lambda"), List(<<Sym("x")>>)>>),
      App(Lambda(<<"x">>, Mark), <<Num(1)>>),
      Let(<< <<"x", Num(1)>> >>, Sym("x")),
      List(<<Sym("let")>>),
      List(<<Sym("let"), List(<<List(<<Sym("x"), Mark>>)>>)>>),
      List(<<Sym("let"), List(<<List(<<Sym("x"), Num(1)>>)>>), Mark, Mark>>),
      List(<<Sym("let"), Num(5), Mark>>),
      List(<<Sym("let"), Sym("x"), Mark>>),
      List(<<Sym("let"), List(<<Num(5)>>), Mark>>),
      List(<<Sym("let"), List(<<Sym("x")>>), Mark>>),
      List(<<Sym("let"), List(<<List(<<Sym("x")>>)>>), Mark>>),
      List(<<Sym("let"), List(<<List(<<Sym("x"), Num(1), Num(2)>>)>>), Mark>>),
      List(<<Sym("let"), List(<<List(<<>>)>>), Mark>>),
      List(<<Sym("let"), List(<<List(<<Num(5), Mark>>)>>), Mark>>),
      List(<<Sym("let"), List(<<List(<<List(<<Sym("x")>>), Num(1)>>)>>), Mark>>),
      List(<<Sym("let"), List(<<List(<<Sym("x"), Num(1)>>), List(<<Num(5), Num(1)>>)>>), Mark>>),
      List(<<Sym("let"), List(<<List(<<Sym("x"), Define("z", Num(1))>>), List(<<Sym("x")>>)>>), Mark>>),
      List(<<Sym("let"), List(<<List(<<Sym("x"), Sym("nope")>>), List(<<Num(5), Num(1)>>)>>), Mark>>) }

\* the five keywords bound as names, used as bare symbols and heading a list
KeywordLines ==
    { Define("if", Sym("+")),
      Sym("if"),
      If(Bool(TRUE), Num(1), Num(2)),
      If(Num(1), Num(2), Num(3)),
      Let(<< <<"if", Sym("+")>> >>, If(Num(1), Num(2), Num(3))),
      App(Lambda(<<"begin">>, Begin(<<Num(1), Num(2)>>)), <<Sym("+")>>),
      Define("begin", Lambda(<<"a", "b">>, Sym("a"))),
      Begin(<<Num(1), Num(2)>>),
      Define("define", Num(1)),
      Sym("define"),
      Define("x", Sym("define")),
      Let(<< <<"lambda", Num(1)>> >>, Lambda(<<"x">>, Sym("lambda"))),
      Let(<< <<"let", Sym("+")>> >>, Let(<< <<"a", Num(1)>> >>, Sym("a"))),
      Let(<< <<"f", Sym("+")>> >>, App(Sym("f"), <<Num(1), Num(2)>>)),
      App(Lambda(<<"if">>, Sym("if")), <<Num(5)>>),
      App(If(Bool(TRUE), Sym("+"), Sym("-")), <<Num(1), Num(2)>>),
      List(<<Num(1), Num(2)>>),
      List(<<Str("if"), Bool(TRUE), Num(1), Num(2)>>) }

FormLines == ShapeLines \cup KeywordLines

NextForms == \E line \in FormLines : EvalLine(line)

SpecForms == Init /\ [][NextForms]_vars

(***************************************************************************)
(* The environment API used directly, as in the tests of env.rs: frames    *)
(* are created with Env::new and Env::extend, written with Env::define and *)
(* read with Env::get and by evaluating a symbol.                          *)
(***************************************************************************)
EnvNames == {"x", "y"}

EnvValues == {VNumber(1), VNumber(2)}

InitEnv ==
    /\ LET r == Env_new(<<>>) IN heap = r.heap /\ env = r.id
    /\ nlines = 0
    /\ out = NoOutput
    /\ op = [name |-> "new", frame |-> 1]
    /\ sess = <<>>
    /\ profile = "debug"    \* env.rs does no arithmetic: the builds do not differ here

ExtendOp(p) ==
    /\ Len(heap) < MaxFrames
    /\ LET r == Env_extend(heap, p)
       IN  heap' = r.heap /\ op' = [name |-> "extend", frame |-> r.id, parent |-> p]
    /\ UNCHANGED <<env, nlines, out, sess, profile>>

DefineOp(f, k, v) ==
    /\ heap' = Env_define(heap, f, k, v)
    /\ op' = [name |-> "define", frame |-> f, key |-> k, val |-> v]
    /\ UNCHANGED <<env, nlines, out, sess, profile>>

GetOp(f, k) ==
    /\ op' = [name |-> "get", frame |-> f, key |-> k, res |-> Env_get(heap, f, k)]
    /\ UNCHANGED <<heap, env, nlines, out, sess, profile>>

EvalSymbolOp(f, k) ==
    /\ LET r == eval(Sym(k), f, [heap |-> heap, log |-> <<>>], 1)
       IN  heap' = r.m.heap /\ op' = [name |-> "eval", frame |-> f, key |-> k, res |-> r.res]
    /\ UNCHANGED <<env, nlines, out, sess, profile>>

NextEnv ==
    \/ \E p \in 1..Len(heap) : ExtendOp(p)
    \/ \E f \in 1..Len(heap), k \in EnvNames, v \in EnvValues : DefineOp(f, k, v)
    \/ \E f \in 1..Len(heap), k \in EnvNames : GetOp(f, k)
    \/ \E f \in 1..Len(heap), k \in EnvNames : EvalSymbolOp(f, k)

SpecEnv == InitEnv /\ [][NextEnv]_vars

(***************************************************************************)
(* lexer.rs and parser.rs.  An input line is a sequence of lexemes, one    *)
(* for each call of a parse_* or skip_* function of the lexer: the run of  *)
(* characters that call consumes.                                          *)
(***************************************************************************)
LParen == [tok |-> "LParen"]

RParen == [tok |-> "RParen"]

TNumber(n) == [tok |-> "Number", n |-> n]

TSymbol(s) == [tok |-> "Symbol", s |-> s]

TString(s) == [tok |-> "String", s |-> s]

TBoolean(b) == [tok |-> "Boolean", b |-> b]

\* lexemes: ( ) whitespace ;comment "string" #c digits symbol
LxL == [lx |-> "("]

LxR == [lx |-> ")"]

LxWs == [lx |-> "ws"]

LxComment == [lx |-> ";"]

\* a string literal: closed, or cut off by the end of the input
LxString(s, closed) == [lx |-> "string", s |-> s, closed |-> closed]

\* # followed by the character c
LxHash(c) == [lx |-> "#", c |-> c]

LxDigits(n) == [lx |-> "digits", n |-> n]

LxSymbol(s) == [lx |-> "symbol", s |-> s]

\* str::trim: whitespace at both ends removed
RECURSIVE TrimStart(_)
TrimStart(input) ==
    IF input # <<>> /\ Head(input) = LxWs THEN TrimStart(Tail(input)) ELSE input

RECURSIVE TrimEnd(_)
TrimEnd(input) ==
    IF input # <<>> /\ input[Len(input)] = LxWs THEN TrimEnd(SubSeq(input, 1, Len(input) - 1)) ELSE input

Trim(input) == TrimEnd(TrimStart(input))

\* trimmed == "exit" || trimmed == "quit"
IsSentinel(trimmed) == trimmed = <<LxSymbol("exit")>> \/ trimmed = <<LxSymbol("quit")>>

RECURSIVE tokenize_from(_, _)
tokenize_from(input, tokens) ==
    IF input = <<>> THEN [ok |-> TRUE, tokens |-> tokens]
    ELSE LET ch == Head(input)
             rest == Tail(input)
         IN  CASE ch.lx = "(" -> tokenize_from(rest, Append(tokens, LParen))
               [] ch.lx = ")" -> tokenize_from(rest, Append(tokens, RParen))
               [] ch.lx = ";" -> tokenize_from(rest, tokens)
               [] ch.lx = "ws" -> tokenize_from(rest, tokens)
               [] ch.lx = "string" ->
                    IF ch.closed THEN tokenize_from(rest, Append(tokens, TString(ch.s)))
                    ELSE [ok |-> FALSE, err |-> "UnterminatedString"]
               [] ch.lx = "#" ->
                    IF ch.c = "t" THEN tokenize_from(rest, Append(tokens, TBoolean(TRUE)))
                    ELSE IF ch.c = "f" THEN tokenize_from(rest, Append(tokens, TBoolean(FALSE)))
                    ELSE [ok |-> FALSE, err |-> "InvalidToken"]
               [] ch.lx = "digits" -> tokenize_from(rest, Append(tokens, TNumber(ch.n)))
               [] ch.lx = "symbol" -> tokenize_from(rest, Append(tokens, TSymbol(ch.s)))

tokenize(input) == tokenize_from(input, <<>>)

RECURSIVE parse_expr(_)
RECURSIVE parse_list(_, _)
parse_expr(tokens) ==
    IF tokens = <<>> THEN [ok |-> FALSE, err |-> "UnexpectedEOF"]
    ELSE LET t == Head(tokens)
         IN  CASE t.tok = "Number" -> [ok |-> TRUE, expr |-> Num(t.n), rest |-> Tail(tokens)]
               [] t.tok = "Boolean" -> [ok |-> TRUE, expr |-> Bool(t.b), rest |-> Tail(tokens)]
               [] t.tok = "String" -> [ok |-> TRUE, expr |-> Str(t.s), rest |-> Tail(tokens)]
               [] t.tok = "Symbol" -> [ok |-> TRUE, expr |-> Sym(t.s), rest |-> Tail(tokens)]
               [] t.tok = "LParen" -> parse_list(Tail(tokens), <<>>)
               [] t.tok = "RParen" -> [ok |-> FALSE, err |-> "UnexpectedToken"]

parse_list(tokens, exprs) ==
    IF tokens = <<>> THEN [ok |-> FALSE, err |-> "UnexpectedEOF"]
    ELSE IF Head(tokens) = RParen THEN [ok |-> TRUE, expr |-> List(exprs), rest |-> Tail(tokens)]
    ELSE LET r == parse_expr(tokens)
         IN  IF ~r.ok THEN r ELSE parse_list(r.rest, Append(exprs, r.expr))

parse(tokens) == parse_expr(tokens)

(***************************************************************************)
(* Sessions.  A session is a run of the REPL loop of main.rs ("repl") or   *)
(* an EvalContext of lib.rs ("context"); each has the root frame that      *)
(* default_env() returned.  Three fields of a session are history the code *)
(* does not keep: alone is the frames of a session that read the same      *)
(* lines and was the only one; kept is what the root frame bound, the      *)
(* builtins aside, when a line of the session last failed; exited is       *)
(* whether the session has read exit or quit.                              *)
(***************************************************************************)
\* an input line written as its words separated by single spaces
Words(ws) == [i \in 1..(2 * Len(ws) - 1) |-> IF i % 2 = 1 THEN ws[(i + 1) \div 2] ELSE LxWs]

SessionInputs ==
    { <<LxL>> \o Words(<<LxSymbol("define"), LxSymbol("x"), LxDigits(1)>>) \o <<LxR>>,
      <<LxSymbol("x")>>,
      <<LxL>> \o Words(<<LxSymbol("define"), LxSymbol("+"), LxSymbol("-")>>) \o <<LxR>>,
      <<LxL>> \o Words(<<LxSymbol("+"), LxDigits(3), LxDigits(4)>>) \o <<LxR>>,
      <<LxSymbol("exit")>>,
      <<LxWs, LxSymbol("quit"), LxWs>>,
      <<LxL>> \o Words(<<LxSymbol("define"), LxSymbol("quit"), LxDigits(5)>>) \o <<LxR>>,
      <<LxL>> \o Words(<<LxSymbol("define"), LxSymbol("x"), LxHash("x")>>),
      <<LxL>> \o Words(<<LxSymbol("define"), LxSymbol("x"), LxDigits(2)>>),
      <<LxL>> \o Words(<<LxSymbol("begin"),
                         LxL, LxSymbol("define"), LxSymbol("x"), LxDigits(2), LxR,
                         LxSymbol("nope")>>) \o <<LxR>> }

Fronts == {"repl", "context"}

InitSessions ==
    /\ heap = <<>>
    /\ env = 0
    /\ nlines = 0
    /\ out = NoOutput
    /\ op = [name |-> "none"]
    /\ sess = <<>>
    /\ profile = "debug"    \* no line of SessionInputs overflows: the builds do not differ here

\* main.rs:9 / EvalContext::new
NewSession(front) ==
    /\ Len(sess) < MaxSessions
    /\ out.res.kind # "Abort"
    /\ LET r == default_env(heap)
       IN  /\ heap' = r.heap
           /\ sess' = Append(sess, [root |-> r.id, front |-> front, pc |-> "loop",
                                    alone |-> default_env(<<>>).heap, kept |-> EmptyVars, exited |-> FALSE])
    /\ op' = [name |-> "new_session", session |-> Len(sess) + 1]
    /\ UNCHANGED <<env, nlines, out, profile>>

\* lib.rs:31-52 and main.rs:25-41: what one input line does to the frames, and the outcome.
\* lib.rs:46-50, main.rs:37-40: the value or the error of eval
eval_parsed(expr, r) ==
    [heap |-> r.m.heap, stage |-> "eval", line |-> expr, res |-> r.res, log |-> r.m.log]

\* lib.rs:41-45, main.rs:33-36
eval_tokens(h, root, a) ==
    IF ~a.ok
        THEN [heap |-> h, stage |-> "parse", line |-> List(<<>>),
              res |-> [kind |-> "ParseError", err |-> a.err], log |-> <<>>]
    ELSE eval_parsed(a.expr, eval(a.expr, root, [heap |-> h, log |-> <<>>], 1))

\* lib.rs:37-40, main.rs:30-32
eval_trimmed(h, root, t) ==
    IF ~t.ok
        THEN [heap |-> h, stage |-> "lex", line |-> List(<<>>),
              res |-> [kind |-> "LexError", err |-> t.err], log |-> <<>>]
    ELSE eval_tokens(h, root, parse(t.tokens))

\* lib.rs:32-36, main.rs:25-29
eval_line(h, root, input) ==
    IF IsSentinel(Trim(input))
        THEN [heap |-> h, stage |-> "exit", line |-> List(<<>>), res |-> [kind |-> "Goodbye"], log |-> <<>>]
    ELSE eval_trimmed(h, root, tokenize(Trim(input)))

\* the bindings of frame f that are not the builtins
UserVars(h, f) ==
    [n \in DOMAIN h[f].vars \ {BuiltinNames[i] : i \in DOMAIN BuiltinNames} |-> h[f].vars[n]]

\* the session after a line with outcome r; a is the same line read by the session alone
AfterLine(ss, r, a) ==
    [ss EXCEPT !.alone = a.heap,
               !.kept = IF r.stage \in {"lex", "parse"} \/ (r.stage = "eval" /\ r.res.kind # "Ok")
                            THEN UserVars(r.heap, ss.root) ELSE @,
               !.exited = @ \/ r.stage = "exit",
               !.pc = IF r.stage = "exit" /\ ss.front = "repl" THEN "done" ELSE @]

\* mutant: every line is evaluated in a new child frame of the root frame
ReadLine_child_frame(s, input) ==
    /\ nlines < MaxInputs
    /\ out.res.kind # "Abort"
    /\ sess[s].pc = "loop"
    /\ nlines' = nlines + 1
    /\ UNCHANGED <<env, profile>>
    /\ \E x \in {Env_extend(heap, sess[s].root)} :
       \E r \in {eval_line(x.heap, x.id, input)}, a \in {eval_line(sess[s].alone, 1, input)} :
           /\ heap' = r.heap
           /\ out' = [line |-> r.line, res |-> r.res, log |-> r.log]
           /\ op' = [name |-> "read_line", session |-> s, input |-> input, stage |-> r.stage]
           /\ sess' = [sess EXCEPT ![s] = AfterLine(@, r, a)]

\* one pass of the loop of main.rs, or one call of EvalContext::eval_line
ReadLine(s, input) ==
    /\ nlines < MaxInputs
    /\ out.res.kind # "Abort"
    /\ sess[s].pc = "loop"
    /\ nlines' = nlines + 1
    /\ UNCHANGED <<env, profile>>
    /\ \E r \in {eval_line(heap, sess[s].root, input)}, a \in {eval_line(sess[s].alone, 1, input)} :
           /\ heap' = r.heap
           /\ out' = [line |-> r.line, res |-> r.res, log |-> r.log]
           /\ op' = [name |-> "read_line", session |-> s, input |-> input, stage |-> r.stage]
           /\ sess' = [sess EXCEPT ![s] = AfterLine(@, r, a)]

NextSessions ==
    \/ \E front \in Fronts : NewSession(front)
    \/ \E s \in 1..Len(sess), input \in SessionInputs : ReadLine(s, input)

SpecSessions == InitSessions /\ [][NextSessions]_vars

(***************************************************************************)
(* The native functions called directly, as in the tests of builtins.rs:   *)
(* one call of one function on a list of argument values.                  *)
(***************************************************************************)
\* argument values: the ends and the middle of the Number range, and values that are no numbers
ArgValues ==
    {VNumber(n) : n \in {MinInt, -1, 0, 1, 2, MaxInt}}
        \cup {VBoolean(TRUE), VBoolean(FALSE), VString("a"), VList(<<>>), VList(<<VNumber(1), VBoolean(TRUE)>>)}

ArgLists == UNION {[1..n -> ArgValues] : n \in 0..MaxArgs}

InitBuiltins ==
    /\ LET d == default_env(<<>>) IN heap = d.heap /\ env = d.id
    /\ nlines = 0
    /\ out = NoOutput
    /\ \E i \in 1..Len(BuiltinNames), args \in ArgLists :
           op = [name |-> "input", f |-> BuiltinNames[i], args |-> args]
    /\ sess = <<>>
    /\ profile \in Profiles

\* f(arg_vals)
CallBuiltin ==
    /\ op.name = "input"
    /\ op' = [name |-> "call", f |-> op.f, args |-> op.args, res |-> CallFunction(op.f, op.args, heap)]
    /\ UNCHANGED <<heap, env, nlines, out, sess, profile>>

NextBuiltins == CallBuiltin

SpecBuiltins == InitBuiltins /\ [][NextBuiltins]_vars

(***************************************************************************)
(* Reading frames and traces.                                              *)
(***************************************************************************)
\* the frames from f up to its root, nearest first
RECURSIVE Chain(_, _)
Chain(h, f) == IF f = NoParent THEN <<>> ELSE <<f>> \o Chain(h, h[f].parent)

Min(S) == CHOOSE x \in S : \A y \in S : x <= y

Max(S) == CHOOSE x \in S : \A y \in S : x >= y

\* the binding of key in the nearest frame of the chain of f that has one
Nearest(h, f, key) ==
    LET c == Chain(h, f)
        B == {i \in 1..Len(c) : key \in DOMAIN h[c[i]].vars}
    IN  IF B = {} THEN None ELSE Some(h[c[Min(B)]].vars[key])

LookupResult(h, f, key) ==
    IF Nearest(h, f, key).some THEN Ok(Nearest(h, f, key).val) ELSE Err(UndefinedSymbol(key))

WellFounded(h) == \A f \in 1..Len(h) : h[f].parent \in 0..(f - 1)

\* a REPL step has just been taken
Step == nlines' = nlines + 1

SpecialForms == {"define", "lambda", "begin", "if", "let"}

IsFormExpr(x, kw) == x.expr = "List" /\ x.items # <<>> /\ IsForm(x.items, kw)

\* (fn a1 ... an) with a symbol that is no keyword in operator position and literal operands
IsCall(x) ==
    /\ x.expr = "List" /\ x.items # <<>>
    /\ x.items[1].expr = "Symbol" /\ x.items[1].name \notin SpecialForms
    /\ \A i \in 2..Len(x.items) : x.items[i].expr = "Number"

\* (let ((n1 v1) ... (nk vk)) body) with well-formed bindings
IsLet(x) ==
    /\ IsFormExpr(x, "let") /\ Len(x.items) = 3 /\ x.items[2].expr = "List"
    /\ \A i \in 1..Len(x.items[2].items) :
           /\ x.items[2].items[i].expr = "List"
           /\ Len(x.items[2].items[i].items) = 2
           /\ x.items[2].items[i].items[1].expr = "Symbol"

LetNames(x) == {x.items[2].items[i].items[1].name : i \in 1..Len(x.items[2].items)}

LetValue(x, i) == x.items[2].items[i].items[2]

\* the last index of s in the parameter list ps, 0 if none
LastIndex(ps, s) ==
    IF \E i \in 1..Len(ps) : ps[i] = s
    THEN CHOOSE i \in 1..Len(ps) : ps[i] = s /\ \A j \in (i + 1)..Len(ps) : ps[j] # s
    ELSE 0

\* the matching return of the eval entry at index i of trace l, 0 if it never returned
ExitOf(l, i) ==
    IF \E j \in (i + 1)..Len(l) : l[j].ev = "exit" /\ l[j].d = l[i].d
    THEN Min({j \in (i + 1)..Len(l) : l[j].ev = "exit" /\ l[j].d = l[i].d})
    ELSE 0

EndOf(l, i) == IF ExitOf(l, i) = 0 THEN Len(l) + 1 ELSE ExitOf(l, i)

\* the eval calls made directly by the eval call entered at index i, in order
RECURSIVE Ascending(_)
Ascending(S) == IF S = {} THEN <<>> ELSE <<Min(S)>> \o Ascending(S \ {Min(S)})

KidSet(l, i) == {j \in (i + 1)..(EndOf(l, i) - 1) : l[j].ev = "enter" /\ l[j].d = l[i].d + 1}

Kids(l, i) == Ascending(KidSet(l, i))

Enters(l) == {i \in 1..Len(l) : l[i].ev = "enter"}

(***************************************************************************)
(* C2: define(frame, name, value) inserts or overwrites name only in that  *)
(* frame's own bindings: every other frame, and in particular every        *)
(* ancestor, keeps its bindings, and a lookup of any name through an       *)
(* ancestor returns what it returned before.                               *)
(***************************************************************************)
C2_DefineIsLocal ==
    [][op'.name = "define" =>
          LET f == op'.frame
              k == op'.key
          IN  /\ Len(heap') = Len(heap)
              /\ \A g \in 1..Len(heap) : g # f => heap'[g] = heap[g]
              /\ heap'[f].parent = heap[f].parent
              /\ DOMAIN heap'[f].vars = DOMAIN heap[f].vars \cup {k}
              /\ heap'[f].vars[k] = op'.val
              /\ \A n \in DOMAIN heap[f].vars \ {k} : heap'[f].vars[n] = heap[f].vars[n]
              /\ \A c \in {Chain(heap, f)} :
                     \A i \in 2..Len(c), n \in EnvNames : Env_get(heap', c[i], n) = Env_get(heap, c[i], n)]_vars

\* a child frame shadows a name its parent binds to another value
C2_Witness ==
    /\ op.name = "define"
    /\ heap[op.frame].parent # NoParent
    /\ op.key \in DOMAIN heap[heap[op.frame].parent].vars
    /\ heap[heap[op.frame].parent].vars[op.key] # op.val
    /\ Env_get(heap, op.frame, op.key) = Some(op.val)

(***************************************************************************)
(* C3: lookup(frame, name) walks the finite parent chain from frame to the *)
(* root and returns the binding of the nearest frame that binds name; it   *)
(* is 'not found' only when no frame of the chain binds name, and eval of  *)
(* the symbol is then UndefinedSymbol(name).  Every chain ends at a        *)
(* parentless root, so the walk terminates.                                *)
(***************************************************************************)
C3_LookupNearest ==
    /\ WellFounded(heap)
    /\ op.name = "get" => op.res = Nearest(heap, op.frame, op.key)
    /\ op.name = "get" =>
          (op.res = None <=> \A i \in 1..Len(Chain(heap, op.frame)) :
                                 op.key \notin DOMAIN heap[Chain(heap, op.frame)[i]].vars)
    /\ op.name = "eval" => op.res = LookupResult(heap, op.frame, op.key)
    /\ (op.name = "eval" /\ ~Nearest(heap, op.frame, op.key).some)
          => op.res = Err(UndefinedSymbol(op.key))

\* the name is bound by the parent and, differently, by the grandparent
C3_Witness ==
    /\ op.name = "get"
    /\ Len(Chain(heap, op.frame)) = 3
    /\ op.key \notin DOMAIN heap[op.frame].vars
    /\ LET p == heap[op.frame].parent
           gp == heap[p].parent
       IN  /\ op.key \in DOMAIN heap[p].vars
           /\ op.key \in DOMAIN heap[gp].vars
           /\ heap[p].vars[op.key] # heap[gp].vars[op.key]
           /\ op.res = Some(heap[p].vars[op.key])

(***************************************************************************)
(* C1: lexical scoping.  When a closure is applied, from the root frame or *)
(* from inside a let that binds other names, its body is evaluated in a    *)
(* fresh frame that holds the parameters and whose parent is the frame the *)
(* closure captured.  A body that is a free variable s is resolved through *)
(* the parameters and then the captured chain: a binding of s in the       *)
(* caller's let is never seen.                                             *)
(***************************************************************************)
\* the call expression of a line that is a call or a let around a call
CallOf(line) == IF IsCall(line) THEN line ELSE line.items[3]

IsCallSite(line) ==
    \/ IsCall(line)
    \/ /\ IsLet(line)
       /\ \A i \in 1..Len(line.items[2].items) : LetValue(line, i).expr = "Number"
       /\ IsCall(line.items[3])
       /\ line.items[3].items[1].name \notin LetNames(line)

\* the closure a call site calls, when it calls a closure with the right number of operands
CalledClosure(h, line) == Env_get(h, env, CallOf(line).items[1].name)

CallsClosure(h, line) ==
    /\ IsCallSite(line)
    /\ CalledClosure(h, line).some
    /\ CalledClosure(h, line).val.value = "Lambda"
    /\ Len(CalledClosure(h, line).val.params) = Len(CallOf(line).items) - 1

C1_LexicalScope ==
    [][(Step /\ CallsClosure(heap, out'.line) /\ CalledClosure(heap, out'.line).val.body.expr = "Symbol") =>
          LET c == CalledClosure(heap, out'.line).val
              s == c.body.name
              call == CallOf(out'.line)
              l == out'.log
              b == Max(Enters(l))
              x == l[b].env
          IN  /\ out'.res = IF LastIndex(c.params, s) # 0
                               THEN Ok(VNumber(call.items[LastIndex(c.params, s) + 1].n))
                               ELSE LookupResult(heap, c.env, s)
              /\ l[b].expr = c.body
              /\ x \notin 1..Len(heap)
              /\ heap'[x].parent = c.env
              /\ DOMAIN heap'[x].vars = {c.params[i] : i \in 1..Len(c.params)}]_vars

\* a let binds x, the closure it calls reads x from the frame it captured
C1_Witness ==
    /\ IsLet(out.line) /\ IsCallSite(out.line) /\ CallsClosure(heap, out.line)
    /\ LET c == CalledClosure(heap, out.line).val
       IN  /\ c.body.expr = "Symbol" /\ c.body.name \in LetNames(out.line)
           /\ c.params = <<>>
           /\ IsOk(out.res)
           /\ out.res = LookupResult(heap, c.env, c.body.name)
           /\ \A i \in 1..Len(out.line.items[2].items) : out.res.val # VNumber(LetValue(out.line, i).n)

(***************************************************************************)
(* C4: frames are shared by reference.  A lambda evaluated at top level    *)
(* captures the root frame itself (no frame is copied).  After a top-level *)
(* (define n v), every frame that has the root on its chain with no nearer *)
(* binding of n looks n up as v, and every closure that holds such a frame *)
(* and reads n returns v when it is called next, although it was created   *)
(* before the define.  A function defined with define can call itself.     *)
(***************************************************************************)
IsLiteralDefine(x) ==
    /\ IsFormExpr(x, "define") /\ Len(x.items) = 3
    /\ x.items[2].expr = "Symbol" /\ x.items[3].expr = "Number"

IsLambdaDefine(x) ==
    /\ IsFormExpr(x, "define") /\ Len(x.items) = 3 /\ x.items[2].expr = "Symbol"
    /\ IsFormExpr(x.items[3], "lambda") /\ Len(x.items[3].items) = 3
    /\ x.items[3].items[2].expr = "List"
    /\ \A i \in 1..Len(x.items[3].items[2].items) : x.items[3].items[2].items[i].expr = "Symbol"

\* frame a is on the chain of frame g and no frame nearer to g binds n
HoldsUnshadowed(h, g, a, n) ==
    \E k \in 1..Len(Chain(h, g)) :
        /\ Chain(h, g)[k] = a
        /\ \A i \in 1..(k - 1) : n \notin DOMAIN h[Chain(h, g)[i]].vars

\* the names the root frame binds to a closure without parameters whose body is the symbol n
Readers(h, n) ==
    {fn \in DOMAIN h[env].vars :
        /\ h[env].vars[fn].value = "Lambda"
        /\ h[env].vars[fn].params = <<>>
        /\ h[env].vars[fn].body = Sym(n)}

C4_SharedFrames ==
    [][Step =>
          /\ IsLambdaDefine(out'.line) =>
                /\ Len(heap') = Len(heap)
                /\ heap'[env].vars[out'.line.items[2].name] =
                       VLambda([i \in 1..Len(out'.line.items[3].items[2].items) |->
                                    out'.line.items[3].items[2].items[i].name],
                               out'.line.items[3].items[3], env)
          /\ IsLiteralDefine(out'.line) =>
                LET n == out'.line.items[2].name
                    v == VNumber(out'.line.items[3].n)
                IN  /\ \A g \in 1..Len(heap') :
                           HoldsUnshadowed(heap', g, env, n) => Env_get(heap', g, n) = Some(v)
                    /\ \A fn \in Readers(heap', n) :
                           HoldsUnshadowed(heap', heap'[env].vars[fn].env, env, n) =>
                               eval(App(Sym(fn), <<>>), env, [heap |-> heap', log |-> <<>>], 1).res = Ok(v)
          /\ out'.line = LoopLine => out'.res = Ok(VNumber(0))]_vars

\* a closure over the root frame, created by the first line, reads the value the second line defined
C4_Witness ==
    /\ nlines = 2
    /\ IsLiteralDefine(out.line)
    /\ \E fn \in Readers(heap, out.line.items[2].name) :
           /\ heap[env].vars[fn].env = env
           /\ eval(App(Sym(fn), <<>>), env, [heap |-> heap, log |-> <<>>], 1).res
                  = Ok(VNumber(out.line.items[3].n))

(***************************************************************************)
(* C5 as stated: when the body of a closure executes (define v e) during a *)
(* call, the binding of v in the frame the closure captured is changed.    *)
(***************************************************************************)
\* the line calls, without operands, a closure without parameters whose body is (define v k)
CallsDefiner(h, line) ==
    /\ IsCall(line) /\ Len(line.items) = 1
    /\ CalledClosure(h, line).some
    /\ CalledClosure(h, line).val.value = "Lambda"
    /\ CalledClosure(h, line).val.params = <<>>
    /\ IsLiteralDefine(CalledClosure(h, line).val.body)

C5_BodyDefineWritesCapturedFrame ==
    (nlines > 0 /\ CallsDefiner(heap, out.line) /\ IsOk(out.res)) =>
        LET c == CalledClosure(heap, out.line).val
            v == c.body.items[2].name
        IN  /\ v \in DOMAIN heap[c.env].vars
            /\ heap[c.env].vars[v] = VNumber(c.body.items[3].n)

(***************************************************************************)
(* C5 amended: a (define v e) executed in the body of a closure during a   *)
(* call writes v into the fresh frame of that call, the child of the       *)
(* captured frame; the captured frame and every other frame that existed   *)
(* before the call are unchanged, so no other holder of the captured frame *)
(* observes the new value.                                                 *)
(***************************************************************************)
C5_BodyDefineWritesCallFrame ==
    [][(Step /\ CallsDefiner(heap, out'.line)) =>
          LET c == CalledClosure(heap, out'.line).val
              v == c.body.items[2].name
              k == VNumber(c.body.items[3].n)
              x == Len(heap) + 1
          IN  /\ out'.res = Ok(k)
              /\ Len(heap') = x
              /\ \A g \in 1..Len(heap) : heap'[g] = heap[g]
              /\ heap'[x] = [parent |-> c.env, vars |-> (v :> k)]
              /\ Env_get(heap', c.env, v) = Env_get(heap, c.env, v)
              /\ \E j \in 1..Len(out'.log) :
                     out'.log[j] = [ev |-> "define", env |-> x, name |-> v, val |-> k]]_vars

\* the call returned the defined value and the captured root frame still does not bind the name
C5_Witness ==
    /\ nlines > 0 /\ CallsDefiner(heap, out.line) /\ IsOk(out.res)
    /\ LET c == CalledClosure(heap, out.line).val
           v == c.body.items[2].name
       IN  /\ c.env = env
           /\ v \notin DOMAIN heap[env].vars
           /\ heap[Len(heap)].parent = env
           /\ heap[Len(heap)].vars[v] = out.res.val

(***************************************************************************)
(* C6: let bindings are parallel.  For every let evaluated, at any depth,  *)
(* each vi is evaluated in the frame enclosing the let, in order; the body *)
(* is then evaluated in a fresh frame whose parent is the enclosing frame  *)
(* and which binds all of n1..nk.  A vi that is a symbol nj therefore has  *)
(* the value of the enclosing frame's binding or is UndefinedSymbol, and a *)
(* lambda created in vi captures the enclosing frame: in neither case is   *)
(* the let's own binding seen.                                             *)
(***************************************************************************)
\* the binding expressions can not change a frame: literals, symbols, lambda expressions
HasPureValues(x) ==
    \A i \in 1..Len(x.items[2].items) :
        \/ LetValue(x, i).expr \in {"Number", "Symbol"}
        \/ IsFormExpr(LetValue(x, i), "lambda")

C6_LetParallel ==
    [][Step =>
          LET l == out'.log
          IN  /\ \A i \in Enters(l) :
                     (IsLet(l[i].expr) /\ ExitOf(l, i) # 0) =>
                         LET x == l[i].expr
                             e == l[i].env
                             nb == Len(x.items[2].items)
                             kids == Kids(l, i)
                         IN  /\ Len(kids) <= nb + 1
                             /\ \A j \in 1..Len(kids) :
                                    j <= nb => l[kids[j]].expr = LetValue(x, j) /\ l[kids[j]].env = e
                             /\ (Len(kids) >= 1 /\ Len(kids) <= nb) =>
                                    ~IsOk(l[ExitOf(l, kids[Len(kids)])].res)
                             /\ Len(kids) = nb + 1 =>
                                    LET b == l[kids[nb + 1]]
                                    IN  /\ b.expr = x.items[3]
                                        /\ b.env \notin 1..Len(heap)
                                        /\ \A j \in 1..(i - 1) :
                                               l[j].ev \in {"enter", "define"} => l[j].env # b.env
                                        /\ heap'[b.env].parent = e
                                        /\ LetNames(x) \subseteq DOMAIN heap'[b.env].vars
              /\ (IsLet(out'.line) /\ HasPureValues(out'.line)) =>
                     /\ \A j \in 1..Len(Kids(l, 1)) :
                            j <= Len(out'.line.items[2].items) =>
                                LET v == LetValue(out'.line, j)
                                    r == l[ExitOf(l, Kids(l, 1)[j])].res
                                IN  /\ v.expr = "Symbol" => r = LookupResult(heap, env, v.name)
                                    /\ (IsFormExpr(v, "lambda") /\ IsOk(r)) => r.val.env = env
                     /\ \A j \in 1..Len(out'.line.items[2].items) :
                            LET v == LetValue(out'.line, j)
                            IN  (/\ out'.line.items[3] = App(Sym(out'.line.items[2].items[j].items[1].name), <<>>)
                                 /\ IsOk(l[ExitOf(l, Kids(l, 1)[j])].res)
                                 /\ IsFormExpr(v, "lambda") /\ v.items[2] = List(<<>>) /\ v.items[3].expr = "Symbol")
                                    => out'.res = LookupResult(heap, env, v.items[3].name)]_vars

\* (let ((x 1) (y x)) y) gave the top-level x, which is not the let's x
C6_Witness ==
    /\ IsLet(out.line) /\ Len(out.line.items[2].items) = 2
    /\ LetValue(out.line, 1).expr = "Number"
    /\ LetValue(out.line, 2) = Sym(out.line.items[2].items[1].items[1].name)
    /\ out.line.items[3] = Sym(out.line.items[2].items[2].items[1].name)
    /\ IsOk(out.res)
    /\ out.res.val # VNumber(LetValue(out.line, 1).n)
    /\ out.res = LookupResult(heap, env, LetValue(out.line, 2).name)

(***************************************************************************)
(* C7 as stated: after a let finishes, with a value or an error, the       *)
(* enclosing frame's bindings of the let-bound names are what they were    *)
(* before the let.                                                         *)
(***************************************************************************)
SameBinding(a, b, n) ==
    /\ (n \in DOMAIN a) = (n \in DOMAIN b)
    /\ n \in DOMAIN a => a[n] = b[n]

C7_LetNamesUntouched ==
    [][(Step /\ IsLet(out'.line) /\ out'.res.kind # "Abort") =>
          \A n \in LetNames(out'.line) : SameBinding(heap[env].vars, heap'[env].vars, n)]_vars

(***************************************************************************)
(* C7 amended: binding the let's names and evaluating its body never write *)
(* the enclosing frame: every write to the enclosing frame made while a    *)
(* let is evaluated is made by one of the binding expressions v1..vk,      *)
(* which are evaluated in the enclosing frame.  So after a let finishes,   *)
(* with a value or an error, the enclosing frame's bindings are what they  *)
(* were before the let plus the defines executed by v1..vk (unchanged when *)
(* no vi executes a define): a name bound only by the let is               *)
(* UndefinedSymbol afterwards, a shadowed outer x keeps its value, and a   *)
(* define executed in the let body writes to the let's child frame.        *)
(***************************************************************************)
\* the bindings vs after the calls of Env::define on frame f in l[j..]
RECURSIVE Replay(_, _, _, _)
Replay(vs, l, f, j) ==
    IF j > Len(l) THEN vs
    ELSE Replay(IF l[j].ev = "define" /\ l[j].env = f THEN (l[j].name :> l[j].val) @@ vs ELSE vs, l, f, j + 1)

\* the indices of the calls of Env::define on frame f between l[a] and l[b]
DefinesOn(l, f, a, b) == {j \in (a + 1)..(b - 1) : l[j].ev = "define" /\ l[j].env = f}

C7_LetWritesChildFrame ==
    [][Step =>
          LET l == out'.log
          IN  /\ \A i \in Enters(l) :
                     IsLet(l[i].expr) =>
                         LET nb == Len(l[i].expr.items[2].items)
                             kids == Kids(l, i)
                         IN  \A j \in DefinesOn(l, l[i].env, i, EndOf(l, i)) :
                                 \E q \in 1..Len(kids) :
                                     q <= nb /\ kids[q] < j /\ j < EndOf(l, kids[q])
              /\ (IsLet(out'.line) /\ out'.res.kind # "Abort") =>
                     /\ heap'[env].vars = Replay(heap[env].vars, l, env, 1)
                     /\ DefinesOn(l, env, 0, Len(l) + 1) = {} => heap'[env] = heap[env]
                     /\ \A n \in LetNames(out'.line) :
                            (n \notin DOMAIN heap[env].vars /\ \A j \in DefinesOn(l, env, 0, Len(l) + 1) : l[j].name # n)
                                => LookupResult(heap', env, n) = Err(UndefinedSymbol(n))
                     /\ (IsLiteralDefine(out'.line.items[3]) /\ IsOk(out'.res)) =>
                            LET b == l[Max(KidSet(l, 1))].env
                            IN  /\ b # env /\ heap'[b].parent = env
                                /\ heap'[b].vars[out'.line.items[3].items[2].name] = out'.res.val]_vars

\* the outer x is bound, the let shadows it and its body defines x again: the outer x is unchanged
C7_Witness ==
    /\ nlines = 2 /\ IsLet(out.line) /\ IsOk(out.res)
    /\ IsLiteralDefine(out.line.items[3])
    /\ out.line.items[3].items[2].name \in LetNames(out.line)
    /\ out.line.items[3].items[2].name \in DOMAIN heap[env].vars
    /\ heap[env].vars[out.line.items[3].items[2].name] # out.res.val
    /\ heap[Len(heap)].parent = env
    /\ heap[Len(heap)].vars[out.line.items[3].items[2].name] = out.res.val

(***************************************************************************)
(* C8: if evaluates exactly one branch.  For every (if cond then else)     *)
(* evaluated, at any depth, whose condition evaluates to a boolean: after  *)
(* the condition exactly one more expression is evaluated, in the same     *)
(* frame, then for true and else for false, and the if returns what that   *)
(* branch returned.  The defines of the chosen branch are in the current   *)
(* frame afterwards, those of the other branch never happen.               *)
(***************************************************************************)
IsIf3(x) == IsFormExpr(x, "if") /\ Len(x.items) = 4

C8_IfOneBranch ==
    [][Step =>
          LET l == out'.log
          IN  /\ \A i \in Enters(l) :
                     (IsIf3(l[i].expr) /\ ExitOf(l, i) # 0) =>
                         LET x == l[i].expr
                             kids == Kids(l, i)
                             c == l[ExitOf(l, kids[1])].res
                         IN  /\ Len(kids) >= 1
                             /\ l[kids[1]].expr = x.items[2] /\ l[kids[1]].env = l[i].env
                             /\ (IsOk(c) /\ c.val.value = "Boolean") =>
                                    /\ Len(kids) = 2
                                    /\ kids[2] = ExitOf(l, kids[1]) + 1
                                    /\ l[kids[2]].expr = x.items[IF c.val.b THEN 3 ELSE 4]
                                    /\ l[kids[2]].env = l[i].env
                                    /\ ExitOf(l, i) = ExitOf(l, kids[2]) + 1
                                    /\ l[ExitOf(l, i)].res = l[ExitOf(l, kids[2])].res
              /\ (/\ IsIf3(out'.line) /\ out'.line.items[2].expr = "Boolean"
                  /\ IsLiteralDefine(out'.line.items[3]) /\ IsLiteralDefine(out'.line.items[4])) =>
                     LET chosen == out'.line.items[IF out'.line.items[2].b THEN 3 ELSE 4]
                     IN  /\ out'.res = Ok(VNumber(chosen.items[3].n))
                         /\ Len(heap') = Len(heap)
                         /\ \A f \in 1..Len(heap) : f # env => heap'[f] = heap[f]
                         /\ heap'[env].vars = (chosen.items[2].name :> VNumber(chosen.items[3].n)) @@ heap[env].vars]_vars

\* (if #t (define x 42) (define x 99)) left x = 42 in the root frame
C8_Witness ==
    /\ nlines > 0 /\ IsIf3(out.line)
    /\ out.line.items[2] = Bool(TRUE)
    /\ IsLiteralDefine(out.line.items[3]) /\ IsLiteralDefine(out.line.items[4])
    /\ out.line.items[3].items[2] = out.line.items[4].items[2]
    /\ out.line.items[3].items[3] # out.line.items[4].items[3]
    /\ heap[env].vars[out.line.items[3].items[2].name] = VNumber(out.line.items[3].items[3].n)
    /\ out.res = Ok(VNumber(out.line.items[3].items[3].n))

(***************************************************************************)
(* C9: if error outcomes.  An if form evaluated with a number of operands  *)
(* other than three returns ArityMismatch at once: no condition or branch  *)
(* is evaluated and no frame changes.  With three operands and a condition *)
(* that evaluates to a value that is no boolean, the if returns TypeError  *)
(* right after the condition and neither branch is evaluated.              *)
(***************************************************************************)
C9_IfErrors ==
    [][Step =>
          LET l == out'.log
          IN  /\ \A i \in Enters(l) :
                     IsFormExpr(l[i].expr, "if") =>
                         /\ Len(l[i].expr.items) # 4 =>
                                /\ i + 1 <= Len(l)
                                /\ l[i + 1].ev = "exit"
                                /\ l[i + 1].d = l[i].d
                                /\ l[i + 1].res = Err(ArityMismatch)
                         /\ (Len(l[i].expr.items) = 4 /\ ExitOf(l, i) # 0) =>
                                LET kids == Kids(l, i)
                                    c == l[ExitOf(l, kids[1])].res
                                IN  (IsOk(c) /\ c.val.value # "Boolean") =>
                                        /\ Len(kids) = 1
                                        /\ ExitOf(l, i) = ExitOf(l, kids[1]) + 1
                                        /\ IsErr(l[ExitOf(l, i)].res, "TypeError")
              /\ (IsFormExpr(out'.line, "if") /\ Len(out'.line.items) # 4) =>
                     /\ out'.res = Err(ArityMismatch)
                     /\ heap' = heap
              /\ (/\ IsIf3(out'.line)
                  /\ \/ out'.line.items[2].expr \in {"Number", "String"}
                     \/ out'.line.items[2] = List(<<>>)
                     \/ IsFormExpr(out'.line.items[2], "lambda")
                     \/ out'.line.items[2] = Sym("+")) =>
                     /\ IsErr(out'.res, "TypeError")
                     /\ heap' = heap]_vars

\* a closure as condition: TypeError, and the defines of both branches did not happen
C9_Witness ==
    /\ nlines > 0 /\ IsIf3(out.line)
    /\ IsFormExpr(out.line.items[2], "lambda")
    /\ IsLiteralDefine(out.line.items[3]) /\ IsLiteralDefine(out.line.items[4])
    /\ IsErr(out.res, "TypeError")
    /\ out.line.items[3].items[2].name \notin DOMAIN heap[env].vars
    /\ out.line.items[4].items[2].name \notin DOMAIN heap[env].vars

(***************************************************************************)
(* C10: error propagation is fail-fast without rollback.  When an eval     *)
(* call returns an error, the very next event is the enclosing eval call   *)
(* returning the same error: no later sibling (begin statement, operand,   *)
(* let binding, let body, closure body) is evaluated, and the line's       *)
(* result is that error.  Every frame after the line holds what it held    *)
(* before plus every define executed, also those before the failure.       *)
(***************************************************************************)
C10_FailFastNoRollback ==
    [][Step =>
          LET l == out'.log
          IN  /\ \A j \in 1..Len(l) :
                     (l[j].ev = "exit" /\ ~IsOk(l[j].res) /\ l[j].d > 1) =>
                         /\ j + 1 <= Len(l)
                         /\ l[j + 1].ev = "exit"
                         /\ l[j + 1].d = l[j].d - 1
                         /\ l[j + 1].res = l[j].res
              /\ out'.res.kind # "Abort" =>
                     /\ l[Len(l)].ev = "exit" /\ l[Len(l)].d = 1
                     /\ l[Len(l)].res = out'.res
              /\ Len(heap') >= Len(heap)
              /\ \A f \in 1..Len(heap) : heap'[f].parent = heap[f].parent
              /\ \A f \in 1..Len(heap') :
                     heap'[f].vars = Replay(IF f <= Len(heap) THEN heap[f].vars ELSE EmptyVars, l, f, 1)]_vars

\* the second of three sub-expressions failed: the define of the first one is kept,
\* the third one was not evaluated
C10_Witness ==
    /\ nlines > 0 /\ out.res.kind = "Err"
    /\ out.line.expr = "List" /\ Len(out.line.items) = 4
    /\ IsLiteralDefine(out.line.items[2]) /\ IsLiteralDefine(out.line.items[4])
    /\ out.line.items[2].items[2] = out.line.items[4].items[2]
    /\ out.line.items[2].items[3] # out.line.items[4].items[3]
    /\ \A j \in Enters(out.log) : out.log[j].expr # out.line.items[4]
    /\ out.line.items[2].items[2].name \in DOMAIN heap[env].vars
    /\ heap[env].vars[out.line.items[2].items[2].name] = VNumber(out.line.items[2].items[3].n)

(***************************************************************************)
(* C11: evaluation is total.  Every line evaluated returns a Value or one  *)
(* of the five error kinds; the process never aborts.                      *)
(***************************************************************************)
ErrorKinds == {"UndefinedSymbol", "TypeError", "ArityMismatch", "NotCallable", "Other"}

C11_EvalTotal ==
    \/ out.res.kind = "Ok"
    \/ out.res.kind = "Err" /\ out.res.err.error \in ErrorKinds

(***************************************************************************)
(* C12: the define form.  (define name expr) evaluates expr in the current *)
(* frame, binds name to the result in the current frame and returns that   *)
(* value; a name that is no symbol gives TypeError and expr is not         *)
(* evaluated; when expr returns an error the binding of name in the        *)
(* current frame is what it was before the define (unbound stays unbound). *)
(***************************************************************************)
IsDefine3(x) == IsFormExpr(x, "define") /\ Len(x.items) = 3

\* what every define form in a call trace does
DefineSteps(l) ==
    \A i \in Enters(l) :
        IsDefine3(l[i].expr) =>
            LET x == l[i].expr
                kids == Kids(l, i)
            IN  /\ x.items[2].expr # "Symbol" =>
                       /\ l[i + 1].ev = "exit" /\ l[i + 1].d = l[i].d
                       /\ IsErr(l[i + 1].res, "TypeError")
                /\ x.items[2].expr = "Symbol" =>
                       /\ Len(kids) = 1 /\ kids[1] = i + 1
                       /\ l[kids[1]].expr = x.items[3] /\ l[kids[1]].env = l[i].env
                       /\ ExitOf(l, kids[1]) # 0 =>
                              LET c == ExitOf(l, kids[1])
                              IN  IF IsOk(l[c].res)
                                  THEN /\ l[c + 1] = [ev |-> "define", env |-> l[i].env,
                                                      name |-> x.items[2].name, val |-> l[c].res.val]
                                       /\ l[c + 2].ev = "exit" /\ l[c + 2].d = l[i].d
                                       /\ l[c + 2].res = l[c].res
                                  ELSE /\ l[c + 1].ev = "exit" /\ l[c + 1].d = l[i].d
                                       /\ l[c + 1].res = l[c].res

C12_DefineForm ==
    [][Step =>
          /\ DefineSteps(out'.log)
          /\ (IsDefine3(out'.line) /\ out'.line.items[2].expr # "Symbol") =>
                 IsErr(out'.res, "TypeError") /\ heap' = heap
          /\ (IsDefine3(out'.line) /\ out'.line.items[2].expr = "Symbol") =>
                 LET n == out'.line.items[2].name
                 IN  /\ IsOk(out'.res) =>
                         n \in DOMAIN heap'[env].vars /\ heap'[env].vars[n] = out'.res.val
                     /\ out'.res.kind = "Err" => SameBinding(heap[env].vars, heap'[env].vars, n)]_vars

(***************************************************************************)
(* C12 amended: as C12, but when expr returns an error the define itself   *)
(* writes nothing: the binding of name in the current frame is what the    *)
(* evaluation of expr left, which is the binding from before the define    *)
(* unless expr itself executed a define of name in the current frame.      *)
(***************************************************************************)
C12_DefineWritesOnSuccess ==
    [][Step =>
          /\ DefineSteps(out'.log)
          /\ (IsDefine3(out'.line) /\ out'.line.items[2].expr # "Symbol") =>
                 IsErr(out'.res, "TypeError") /\ heap' = heap
          /\ (IsDefine3(out'.line) /\ out'.line.items[2].expr = "Symbol") =>
                 LET n == out'.line.items[2].name
                     l == out'.log
                 IN  /\ IsOk(out'.res) =>
                         n \in DOMAIN heap'[env].vars /\ heap'[env].vars[n] = out'.res.val
                     /\ out'.res.kind = "Err" =>
                         /\ heap'[env].vars = Replay(heap[env].vars, SubSeq(l, 2, ExitOf(l, 2)), env, 1)
                         /\ DefinesOn(l, env, 1, Len(l)) = DefinesOn(l, env, 2, ExitOf(l, 2))
                         /\ (\A j \in DefinesOn(l, env, 1, Len(l)) : l[j].name # n) =>
                                SameBinding(heap[env].vars, heap'[env].vars, n)]_vars

\* (define x nope) after x was defined: an error, and x keeps its value
C12_Witness ==
    /\ nlines = 2 /\ out.line = Define("x", Sym("nope"))
    /\ IsErr(out.res, "UndefinedSymbol")
    /\ "x" \in DOMAIN heap[env].vars /\ heap[env].vars["x"] = VNumber(2)

(***************************************************************************)
(* C13: application is strict and ordered.  For every list (f a1 ... an)   *)
(* that is no special form the operator is evaluated first, then a1..an    *)
(* left to right, each right after the one before returned and all in the  *)
(* current frame; only after all of them returned values is the native     *)
(* function invoked or the closure body entered, and the callee receives   *)
(* the values in operand order.                                            *)
(***************************************************************************)
\* a list that eval hands to eval_application
IsApplication(x) ==
    /\ x.expr = "List" /\ x.items # <<>>
    /\ \A kw \in SpecialForms : ~IsForm(x.items, kw)

\* the values returned by the first n eval calls in kids
KidValues(l, kids, n) == [q \in 1..n |-> l[ExitOf(l, kids[q])].res.val]

NoLambda(vs) == \A q \in 1..Len(vs) : vs[q].value \notin {"Lambda", "List"}

C13_StrictOrdered ==
    [][Step =>
          LET l == out'.log
          IN  /\ \A i \in Enters(l) :
                     IsApplication(l[i].expr) =>
                       \A kids \in {Kids(l, i)} :
                         LET items == l[i].expr.items
                             n == Min({Len(kids), Len(items)})
                         IN  /\ \A q \in 1..n :
                                    /\ l[kids[q]].expr = items[q]
                                    /\ l[kids[q]].env = l[i].env
                                    /\ kids[q] = IF q = 1 THEN i + 1 ELSE ExitOf(l, kids[q - 1]) + 1
                                    /\ q < n => IsOk(l[ExitOf(l, kids[q])].res)
                             /\ (ExitOf(l, i) # 0 /\ Len(kids) < Len(items)) =>
                                    ~IsOk(l[ExitOf(l, kids[n])].res)
                             /\ (/\ Len(kids) >= Len(items)
                                 /\ ExitOf(l, kids[n]) # 0
                                 /\ IsOk(l[ExitOf(l, kids[n])].res)) =>
                                    LET vs == KidValues(l, kids, n)
                                        c == ExitOf(l, kids[n])
                                        params == vs[1].params
                                    IN  /\ vs[1].value = "Function" =>
                                            /\ Len(kids) = n
                                            /\ IF Len(l) > c
                                                   THEN /\ l[c + 1].ev = "exit" /\ l[c + 1].d = l[i].d
                                                        /\ NoLambda(Tail(vs)) =>
                                                               l[c + 1].res = CallFunction(vs[1].f, Tail(vs), heap')
                                               ELSE out'.res.kind = "Abort"
                                        /\ (vs[1].value = "Lambda" /\ Len(params) = n - 1) =>
                                            /\ \A q \in 1..(n - 1) :
                                                   /\ l[c + q].ev = "define"
                                                   /\ l[c + q].name = params[q]
                                                   /\ l[c + q].val = vs[q + 1]
                                                   /\ l[c + q].env = l[c + 1].env
                                            /\ Len(kids) = n + 1 => kids[n + 1] = c + n
                                        /\ (vs[1].value = "Lambda" /\ Len(params) # n - 1) =>
                                            Len(kids) = n
              /\ out'.line = App(Sym("list"), <<Define("x", Num(3)), Define("x", Num(4)), Sym("x")>>) =>
                     /\ out'.res = Ok(VList(<<VNumber(3), VNumber(4), VNumber(4)>>))
                     /\ heap'[env].vars["x"] = VNumber(4)
              /\ out'.line = App(Sym("-"), <<Num(5), Num(3)>>) => out'.res = Ok(VNumber(2))]_vars

\* ((begin (define x 5) (lambda (a b) (- a b))) x (define x 3)): the operator ran first,
\* so x was 5 when the first operand read it: 5 - 3
C13_Witness ==
    /\ nlines > 0
    /\ out.line = App(Begin(<<Define("x", Num(5)), Lambda(<<"a", "b">>, App(Sym("-"), <<Sym("a"), Sym("b")>>))>>),
                      <<Sym("x"), Define("x", Num(3))>>)
    /\ out.res = Ok(VNumber(2))
    /\ heap[env].vars["x"] = VNumber(3)

(***************************************************************************)
(* C14: application dispatch errors.  When the operator and all operands   *)
(* of an application returned values: a closure whose parameter count      *)
(* differs from the operand count gives ArityMismatch and its body is not  *)
(* evaluated; a value that is neither a native function nor a closure      *)
(* (number, boolean, string, list) gives NotCallable, for any number of    *)
(* operands.                                                               *)
(***************************************************************************)
C14_DispatchErrors ==
    [][Step =>
          LET l == out'.log
          IN  /\ \A i \in Enters(l) :
                     IsApplication(l[i].expr) =>
                         LET n == Len(l[i].expr.items)
                             kids == Kids(l, i)
                         IN  (/\ Len(kids) >= n
                              /\ ExitOf(l, kids[n]) # 0
                              /\ IsOk(l[ExitOf(l, kids[n])].res)) =>
                                 LET f == l[ExitOf(l, kids[1])].res.val
                                     c == ExitOf(l, kids[n])
                                 IN  /\ (f.value = "Lambda" /\ Len(f.params) # n - 1) =>
                                         /\ Len(kids) = n
                                         /\ l[c + 1] = [ev |-> "exit", res |-> Err(ArityMismatch), d |-> l[i].d]
                                     /\ f.value \in {"Number", "Boolean", "String", "List"} =>
                                         /\ Len(kids) = n
                                         /\ l[c + 1] = [ev |-> "exit", res |-> Err(NotCallable), d |-> l[i].d]
              /\ (/\ IsApplication(out'.line) /\ IsFormExpr(out'.line.items[1], "lambda")
                  /\ Len(out'.line.items[1].items) = 3
                  /\ Len(out'.line.items[1].items[2].items) # Len(out'.line.items) - 1
                  /\ \A q \in 2..Len(out'.line.items) : out'.line.items[q].expr = "Number") =>
                     out'.res = Err(ArityMismatch) /\ heap' = heap
              /\ (/\ IsApplication(out'.line)
                  /\ \/ out'.line.items[1].expr \in {"Number", "Boolean", "String"}
                     \/ out'.line.items[1] = List(<<>>)
                  /\ \A q \in 2..Len(out'.line.items) : out'.line.items[q].expr = "Number") =>
                     out'.res = Err(NotCallable) /\ heap' = heap]_vars

\* ((lambda () (define x 9)) 3): one argument for no parameter, the body did not run
C14_Witness ==
    /\ nlines = 1
    /\ out.line = App(Lambda(<<>>, Define("x", Num(9))), <<Num(3)>>)
    /\ out.res = Err(ArityMismatch)
    /\ "x" \notin DOMAIN heap[env].vars

(***************************************************************************)
(* C15: every closure call binds its parameters in a new frame of its own, *)
(* a child of the captured frame that no earlier evaluation used, so the   *)
(* closures returned by different calls of one function capture distinct   *)
(* frames.  No later line changes a frame other than the root frame, so    *)
(* with adder = (lambda (x) (lambda (y) (+ x y))) the closure from         *)
(* (adder 3) keeps x = 3 after a later (adder 4) and after a later         *)
(* top-level (define x ...), and ((adder 3) 4) is 7.                       *)
(***************************************************************************)
\* the value of name in the root frame is a closure made by adder with x = k
IsAdderClosure(h, name, k) ==
    /\ name \in DOMAIN h[env].vars
    /\ h[env].vars[name].value = "Lambda"
    /\ h[env].vars[name].params = <<"y">>
    /\ h[env].vars[name].body = AdderFn.items[3].items[3]
    /\ h[env].vars[name].env # env
    /\ "x" \in DOMAIN h[h[env].vars[name].env].vars
    /\ h[h[env].vars[name].env].vars["x"] = VNumber(k)

C15_FreshCallFrames ==
    [][Step =>
          LET l == out'.log
          IN  /\ \A i \in Enters(l) :
                     IsApplication(l[i].expr) =>
                         LET n == Len(l[i].expr.items)
                             kids == Kids(l, i)
                         IN  Len(kids) = n + 1 =>
                                 LET fr == l[kids[n + 1]].env
                                     c == ExitOf(l, kids[n])
                                     f == l[ExitOf(l, kids[1])].res.val
                                 IN  /\ fr > Len(heap) /\ fr <= Len(heap')
                                     /\ heap'[fr].parent = f.env
                                     /\ \A j \in 1..c : l[j].ev \in {"enter", "define"} => l[j].env # fr
                                     /\ \A q \in 1..(n - 1) : l[c + q].ev = "define" /\ l[c + q].env = fr
                                     /\ l[kids[n + 1]].expr = f.body
              /\ \A f \in 1..Len(heap) : f # env => heap'[f] = heap[f]
              /\ \A k \in {3, 4} :
                     (IsAdderClosure(heap, "a3", k) /\ out'.line = App(Sym("a3"), <<Num(4)>>)) =>
                         out'.res = Ok(VNumber(k + 4))
              /\ (/\ "adder" \in DOMAIN heap[env].vars
                  /\ heap[env].vars["adder"] = VLambda(<<"x">>, AdderFn.items[3], env)
                  /\ out'.line = App(App(Sym("adder"), <<Num(3)>>), <<Num(4)>>)) =>
                     out'.res = Ok(VNumber(7))]_vars

\* a3 = (adder 3) from the line before; this line made a4 = (adder 4), defined x = 2 at top
\* level, and then (a3 4) was 7 and (a4 4) was 8
C15_Witness ==
    /\ nlines = 2
    /\ out.res = Ok(VList(<<VNumber(7), VNumber(8)>>))
    /\ IsAdderClosure(heap, "a3", 3) /\ IsAdderClosure(heap, "a4", 4)
    /\ heap[env].vars["a3"].env # heap[env].vars["a4"].env
    /\ heap[env].vars["x"] = VNumber(2)

(***************************************************************************)
(* C16: session persistence.  A session uses the same root frame for every *)
(* input line, so a binding of the root frame made by one line is there    *)
(* for every later line of the session, also after lines that ended in a   *)
(* lex, parse or eval error; a line that fails keeps the bindings it wrote *)
(* before the failure.                                                     *)
(***************************************************************************)
\* the outcome of the line read by the last step
LastOut(o, res) == [stage |-> o.stage, res |-> res]

C16_SessionPersistence ==
    [][Step =>
          LET s == op'.session
              root == sess[s].root
              l == out'.log
              o == LastOut(op', out'.res)
          IN  /\ \A k \in 1..Len(sess) : sess'[k].root = sess[k].root
              /\ o.stage \in {"exit", "lex", "parse"} => heap' = heap /\ l = <<>>
              /\ o.stage = "eval" =>
                     /\ l[1].ev = "enter" /\ l[1].env = root /\ l[1].d = 1
                     /\ heap'[root].vars = Replay(heap[root].vars, l, root, 1)
              /\ \A n \in DOMAIN heap[root].vars :
                     /\ n \in DOMAIN heap'[root].vars
                     /\ (\A j \in DefinesOn(l, root, 0, Len(l) + 1) : l[j].name # n) =>
                            heap'[root].vars[n] = heap[root].vars[n]
                     /\ (Trim(op'.input) = <<LxSymbol(n)>> /\ ~IsSentinel(Trim(op'.input))) =>
                            o = [stage |-> "eval", res |-> Ok(heap[root].vars[n])]]_vars

\* a session defined x = 1, then read a line that failed, then read x and got 1
C16_Witness ==
    /\ op.name = "read_line"
    /\ op.input = <<LxSymbol("x")>>
    /\ LastOut(op, out.res) = [stage |-> "eval", res |-> Ok(VNumber(1))]
    /\ "x" \in DOMAIN sess[op.session].kept
    /\ sess[op.session].kept["x"] = VNumber(1)

(***************************************************************************)
(* C17: an input line that is exit or quit after trimming ends the session *)
(* and never reaches the evaluator: it is not tokenized, parsed or         *)
(* evaluated and changes no frame, also when the session has defined a     *)
(* symbol of that name, and no later input of the session is evaluated.    *)
(***************************************************************************)
\* the session has read exit or quit
HasExited(ss, s) == ss[s].exited

C17_SentinelEndsSession ==
    [][Step =>
          LET s == op'.session
              o == LastOut(op', out'.res)
          IN  /\ IsSentinel(Trim(op'.input)) =>
                     /\ o = [stage |-> "exit", res |-> [kind |-> "Goodbye"]]
                     /\ heap' = heap
                     /\ out'.log = <<>>
              /\ HasExited(sess, s) => o.stage # "eval"]_vars

(***************************************************************************)
(* C18: sessions are isolated.  Two sessions share no frame: a line read   *)
(* by one session touches only frames under that session's root and leaves *)
(* every frame of every other session as it was.  So for every             *)
(* interleaving of the lines of the sessions, the outcomes and the         *)
(* top-level bindings of a session are those of a session that read the    *)
(* same lines alone; a define in one session, also of a builtin such as +, *)
(* is not visible in another.                                              *)
(***************************************************************************)
\* the root frame at the top of the chain of frame f
RootOf(h, f) == LET c == Chain(h, f) IN c[Len(c)]

\* the line read by the session that has read the same lines alone
Alone(ss, input) == eval_line(ss.alone, 1, input)

C18_SessionsIsolated ==
    [][Step =>
          LET s == op'.session
              root == sess[s].root
              l == out'.log
          IN  /\ \A k \in 1..Len(sess) : k # s => sess'[k] = sess[k]
              /\ \A j, k \in 1..Len(sess) : j # k => sess[j].root # sess[k].root
              /\ \A f \in 1..Len(heap) : RootOf(heap, f) # root => heap'[f] = heap[f]
              /\ \A f \in (Len(heap) + 1)..Len(heap') : RootOf(heap', f) = root
              /\ \A j \in 1..Len(l) : l[j].ev \in {"enter", "define"} => RootOf(heap', l[j].env) = root
              /\ \A a \in {Alone(sess[s], op'.input)} :
                     /\ LastOut(op', out'.res) = LastOut(a, a.res)
                     /\ heap'[root].vars = a.heap[1].vars
              /\ \A k \in 1..Len(sess) : heap'[sess[k].root].vars = sess'[k].alone[1].vars]_vars

\* one session had redefined + as -, and then (+ 3 4) read by the other session was 7
C18_Witness ==
    /\ op.name = "read_line"
    /\ Trim(op.input) = <<LxL>> \o Words(<<LxSymbol("+"), LxDigits(3), LxDigits(4)>>) \o <<LxR>>
    /\ out.res = Ok(VNumber(7))
    /\ \E s \in 1..Len(sess) :
           /\ s # op.session
           /\ heap[sess[s].root].vars["+"] = VFunction("-")
           /\ heap[sess[op.session].root].vars["+"] = VFunction("+")

(***************************************************************************)
(* C19: begin evaluates its sub-expressions e1..en in order, each right    *)
(* after the one before returned, in the current frame and in no new       *)
(* frame, so that the defines inside it are in the current frame after it, *)
(* and returns the value of en; a begin without sub-expressions returns    *)
(* boolean false.                                                          *)
(***************************************************************************)
C19_BeginSequence ==
    [][Step =>
          LET l == out'.log
          IN  /\ \A i \in Enters(l) :
                     IsFormExpr(l[i].expr, "begin") =>
                       \A kids \in {Kids(l, i)} :
                         LET items == l[i].expr.items
                             n == Len(kids)
                         IN  /\ n <= Len(items) - 1
                             /\ \A q \in 1..n :
                                    /\ l[kids[q]].expr = items[q + 1]
                                    /\ l[kids[q]].env = l[i].env
                                    /\ kids[q] = IF q = 1 THEN i + 1 ELSE ExitOf(l, kids[q - 1]) + 1
                                    /\ q < n => IsOk(l[ExitOf(l, kids[q])].res)
                             /\ Len(items) = 1 =>
                                    l[i + 1] = [ev |-> "exit", res |-> Ok(VBoolean(FALSE)), d |-> l[i].d]
                             /\ (n >= 1 /\ ExitOf(l, kids[n]) # 0) =>
                                    LET c == ExitOf(l, kids[n])
                                    IN  /\ l[c + 1] = [ev |-> "exit", res |-> l[c].res, d |-> l[i].d]
                                        /\ IsOk(l[c].res) => n = Len(items) - 1
                             /\ \A j \in (i + 1)..(EndOf(l, i) - 1) :
                                    l[j].ev = "define" =>
                                        \E q \in 1..n : kids[q] < j /\ j < EndOf(l, kids[q])
              /\ (/\ IsFormExpr(out'.line, "begin")
                  /\ \A q \in 2..Len(out'.line.items) : IsLiteralDefine(out'.line.items[q])) =>
                     /\ Len(heap') = Len(heap)
                     /\ heap'[env].vars = Replay(heap[env].vars, l, env, 1)
                     /\ \A q \in 2..Len(out'.line.items) :
                            out'.line.items[q].items[2].name \in DOMAIN heap'[env].vars
              /\ out'.line = Begin(<<>>) => out'.res = Ok(VBoolean(FALSE)) /\ heap' = heap]_vars

\* (begin (define x 3) (define y x) (list x y)): y read the x defined before it, the value
\* is that of the last statement, and x and y are in the root frame afterwards
C19_Witness ==
    /\ nlines > 0
    /\ out.line = Begin(<<Define("x", Num(3)), Define("y", Sym("x")), App(Sym("list"), <<Sym("x"), Sym("y")>>)>>)
    /\ out.res = Ok(VList(<<VNumber(3), VNumber(3)>>))
    /\ heap[env].vars["x"] = VNumber(3) /\ heap[env].vars["y"] = VNumber(3)

(***************************************************************************)
(* C20: the numeric natives agree with their reference operators on every  *)
(* list of integers: + is the sum (0 for no arguments), * the product (1   *)
(* for no arguments); - and / return a single argument unchanged, fold     *)
(* left to right over more, and return an Other error for none; < and >    *)
(* are true iff the arguments are strictly increasing / decreasing; any    *)
(* argument that is no integer gives TypeError.                            *)
(***************************************************************************)
\* the reference operators, on the integers
RECURSIVE RefFold(_, _, _)
RefFold(f, acc, rest) ==
    IF rest = <<>> THEN acc
    ELSE RefFold(f, CASE f = "+" -> acc + Head(rest).n
                      [] f = "*" -> acc * Head(rest).n
                      [] f = "-" -> acc - Head(rest).n
                      [] f = "/" -> TruncDiv(acc, Head(rest).n),
                 Tail(rest))

C20_NumericBuiltins ==
    (op.name = "call" /\ op.f \in {"+", "-", "*", "/", "<", ">"}) =>
        LET a == op.args
        IN  IF ~AllNumbers(a) THEN IsErr(op.res, "TypeError")
            ELSE CASE op.f = "+" -> op.res = Ok(VNumber(RefFold("+", 0, a)))
                   [] op.f = "*" -> op.res = Ok(VNumber(RefFold("*", 1, a)))
                   [] op.f = "-" ->
                        IF a = <<>> THEN IsErr(op.res, "Other")
                        ELSE op.res = Ok(VNumber(RefFold("-", a[1].n, Tail(a))))
                   [] op.f = "/" ->
                        IF a = <<>> THEN IsErr(op.res, "Other")
                        ELSE (\A i \in 2..Len(a) : a[i].n # 0) =>
                                 op.res = Ok(VNumber(RefFold("/", a[1].n, Tail(a))))
                   [] op.f = "<" -> op.res = Ok(VBoolean(\A i \in 1..(Len(a) - 1) : a[i].n < a[i + 1].n))
                   [] op.f = ">" -> op.res = Ok(VBoolean(\A i \in 1..(Len(a) - 1) : a[i].n > a[i + 1].n))

(***************************************************************************)
(* C21: division by zero is an error value and no crash.  On every list of *)
(* two or more integers / returns an Other error when some divisor (an     *)
(* argument after the first) is zero, and a Number otherwise; a zero       *)
(* dividend and the single argument 0 are no errors; / aborts the process  *)
(* for no list of integers.                                                *)
(***************************************************************************)
C21_DivTotal ==
    (op.name = "call" /\ op.f = "/" /\ AllNumbers(op.args)) =>
        LET a == op.args
        IN  /\ op.res.kind # "Abort"
            /\ Len(a) >= 2 =>
                   IF \E i \in 2..Len(a) : a[i].n = 0 THEN op.res = Err(Other("Division by zero"))
                   ELSE IsOk(op.res) /\ op.res.val.value = "Number"
            /\ a = <<VNumber(0)>> => op.res = Ok(VNumber(0))
            /\ (Len(a) = 2 /\ a[1].n = 0 /\ a[2].n # 0) => op.res = Ok(VNumber(0))

(***************************************************************************)
(* C22: = returns a Boolean for every list of argument values of every     *)
(* variant: true for fewer than two arguments, and otherwise true exactly  *)
(* when every argument is structurally equal to the others.  Closures are  *)
(* compared by parameters, body and captured frame, and the comparison     *)
(* ends also when the captured frame binds the closure itself.             *)
(***************************************************************************)
\* a closure is somewhere in the value
RECURSIVE HasLambda(_)
HasLambda(v) ==
    \/ v.value = "Lambda"
    \/ v.value = "List" /\ \E q \in 1..Len(v.items) : HasLambda(v.items[q])

C22_EqTotal ==
    [][Step =>
          LET l == out'.log
          IN  /\ \A i \in Enters(l) :
                     IsApplication(l[i].expr) =>
                       \A kids \in {Kids(l, i)} :
                         LET n == Len(l[i].expr.items)
                         IN  (/\ Len(kids) = n
                              /\ ExitOf(l, kids[n]) # 0
                              /\ IsOk(l[ExitOf(l, kids[n])].res)
                              /\ l[ExitOf(l, kids[1])].res.val = VFunction("=")) =>
                                 \A vs \in {Tail(KidValues(l, kids, n))}, c \in {ExitOf(l, kids[n])} :
                                     /\ Len(l) > c
                                     /\ l[c + 1].ev = "exit" /\ l[c + 1].d = l[i].d
                                     /\ IsOk(l[c + 1].res)
                                     /\ l[c + 1].res.val.value = "Boolean"
                                     /\ Len(vs) < 2 => l[c + 1].res.val.b
                                     /\ (\A q \in 1..Len(vs) : vs[q] = vs[1]) => l[c + 1].res.val.b
                                     /\ (\A q \in 1..Len(vs) : ~HasLambda(vs[q])) =>
                                            l[c + 1].res.val.b = (\A q \in 1..Len(vs) : vs[q] = vs[1])
              /\ (/\ "f" \in DOMAIN heap[env].vars
                  /\ heap[env].vars["f"].value = "Lambda"
                  /\ out'.line = App(Sym("="), <<Sym("f"), Sym("f")>>)) =>
                     out'.res = Ok(VBoolean(TRUE))]_vars

(***************************************************************************)
(* C23: and, or and not require boolean arguments.  As claimed: and and or *)
(* return TypeError for every argument list with a value that is no        *)
(* boolean at any position; on booleans and is false exactly when some     *)
(* argument is false and or is true exactly when some argument is true;    *)
(* not returns ArityMismatch unless it has exactly one argument, and       *)
(* otherwise the negation of its boolean argument.                         *)
(***************************************************************************)
AllBooleans(args) == \A i \in 1..Len(args) : args[i].value = "Boolean"

FirstDecisive(a, stop) ==
    LET S == {i \in 1..Len(a) : a[i].value # "Boolean" \/ a[i].b = stop}
    IN  IF S = {} THEN 0 ELSE Min(S)

IsNonEmptyList(v) == v.value = "List" /\ v.items # <<>>

C24_ListPrimitives ==
    [][Step =>
          LET l == out'.log
          IN  /\ \A i \in Enters(l) :
                     IsApplication(l[i].expr) =>
                       \A kids \in {Kids(l, i)} :
                         LET n == Len(l[i].expr.items)
                         IN  (/\ Len(kids) = n
                              /\ ExitOf(l, kids[n]) # 0
                              /\ IsOk(l[ExitOf(l, kids[n])].res)
                              /\ l[ExitOf(l, kids[1])].res.val \in {VFunction("car"), VFunction("cdr"), VFunction("cons")}) =>
                                 \A f \in {l[ExitOf(l, kids[1])].res.val.f},
                                    vs \in {Tail(KidValues(l, kids, n))},
                                    c \in {ExitOf(l, kids[n])} :
                                     /\ Len(l) > c
                                     /\ l[c + 1].ev = "exit" /\ l[c + 1].d = l[i].d
                                     /\ \A r \in {l[c + 1].res} :
                                            CASE f = "cons" ->
                                                   IF Len(vs) = 2 /\ vs[2].value = "List"
                                                       THEN /\ r = Ok(VList(<<vs[1]>> \o vs[2].items))
                                                            /\ builtin_car(<<r.val>>) = Ok(vs[1])
                                                            /\ builtin_cdr(<<r.val>>) = Ok(vs[2])
                                                   ELSE IsErr(r, "TypeError")
                                              [] f = "car" ->
                                                   IF Len(vs) = 1 /\ IsNonEmptyList(vs[1])
                                                       THEN r = Ok(vs[1].items[1])
                                                   ELSE IsErr(r, "TypeError")
                                              [] f = "cdr" ->
                                                   IF Len(vs) = 1 /\ IsNonEmptyList(vs[1])
                                                       THEN /\ r = Ok(VList(Tail(vs[1].items)))
                                                            /\ builtin_cons(<<vs[1].items[1], r.val>>) = Ok(vs[1])
                                                   ELSE IsErr(r, "TypeError")
              /\ \A f \in 1..Len(heap) : heap'[f].vars = Replay(heap[f].vars, l, f, 1)
              /\ \A n \in DOMAIN heap[env].vars :
                     (\A j \in DefinesOn(l, env, 0, Len(l) + 1) : l[j].name # n) =>
                         heap'[env].vars[n] = heap[env].vars[n]
              /\ out'.line \in {Cons0L, App(Sym("car"), <<Cons0L>>), App(Sym("cdr"), <<Cons0L>>)} =>
                     heap' = heap]_vars

\* l was (1 2); (cdr (cons 0 l)) gave (1 2), and l is still (1 2)
C24_Witness ==
    /\ nlines = 2
    /\ out.line = App(Sym("cdr"), <<Cons0L>>)
    /\ out.res = Ok(VList(<<VNumber(1), VNumber(2)>>))
    /\ heap[env].vars["l"] = VList(<<VNumber(1), VNumber(2)>>)

(***************************************************************************)
(* C25: special forms check the shape of their operands and answer with    *)
(* typed errors.  lambda returns TypeError when its parameter position is  *)
(* no list or holds something that is no symbol, and otherwise a closure,  *)
(* without evaluating the body or changing a frame.  let returns           *)
(* ArityMismatch when the form is not exactly (let bindings body), and     *)
(* TypeError when bindings is no list, when a binding is no list of two    *)
(* elements or when the name of a binding is no symbol; in each of these   *)
(* cases the body is not evaluated.  (The bindings are checked one by one, *)
(* each right before its value is evaluated: the TypeError is required     *)
(* here when the values of the bindings before the wrong one evaluated.)   *)
(***************************************************************************)
IsSymbolList(x) == x.expr = "List" /\ \A q \in 1..Len(x.items) : x.items[q].expr = "Symbol"

IsBinding(x) == x.expr = "List" /\ Len(x.items) = 2 /\ x.items[1].expr = "Symbol"

\* the position of the first binding of the wrong shape; 0 if there is none
FirstBadBinding(bs) ==
    LET S == {q \in 1..Len(bs) : ~IsBinding(bs[q])} IN IF S = {} THEN 0 ELSE Min(S)

C25_ShapeErrors ==
    [][Step =>
          LET l == out'.log
          IN  /\ \A i \in Enters(l) :
                     (IsFormExpr(l[i].expr, "lambda") /\ Len(l[i].expr.items) >= 2) =>
                         LET items == l[i].expr.items
                         IN  /\ Len(l) > i
                             /\ l[i + 1].ev = "exit" /\ l[i + 1].d = l[i].d
                             /\ IF IsSymbolList(items[2])
                                    THEN /\ IsOk(l[i + 1].res)
                                         /\ l[i + 1].res.val.value = "Lambda"
                                         /\ l[i + 1].res.val.params = [q \in 1..Len(items[2].items) |-> items[2].items[q].name]
                                         /\ l[i + 1].res.val.env = l[i].env
                                         /\ Len(items) >= 3 => l[i + 1].res.val.body = items[3]
                                ELSE IsErr(l[i + 1].res, "TypeError")
              /\ \A i \in Enters(l) :
                     IsFormExpr(l[i].expr, "let") =>
                       \A kids \in {Kids(l, i)} :
                         LET items == l[i].expr.items
                         IN  /\ Len(items) # 3 =>
                                    l[i + 1] = [ev |-> "exit", res |-> Err(ArityMismatch), d |-> l[i].d]
                             /\ (Len(items) = 3 /\ items[2].expr # "List") =>
                                    /\ l[i + 1].ev = "exit" /\ l[i + 1].d = l[i].d
                                    /\ IsErr(l[i + 1].res, "TypeError")
                             /\ (Len(items) = 3 /\ items[2].expr = "List") =>
                                    \A k \in {FirstBadBinding(items[2].items)} :
                                        k > 0 =>
                                            /\ Len(kids) <= k - 1
                                            /\ \A q \in 1..Len(kids) : l[kids[q]].expr = items[2].items[q].items[2]
                                            /\ k = 1 =>
                                                   /\ l[i + 1].ev = "exit" /\ l[i + 1].d = l[i].d
                                                   /\ IsErr(l[i + 1].res, "TypeError")
                                            /\ (/\ k > 1 /\ Len(kids) = k - 1
                                                /\ ExitOf(l, kids[k - 1]) # 0
                                                /\ IsOk(l[ExitOf(l, kids[k - 1])].res)) =>
                                                   \A c \in {ExitOf(l, kids[k - 1])} :
                                                       /\ l[c + 1].ev = "define"
                                                       /\ l[c + 2].ev = "exit" /\ l[c + 2].d = l[i].d
                                                       /\ IsErr(l[c + 2].res, "TypeError")
              /\ (IsFormExpr(out'.line, "lambda") /\ Len(out'.line.items) >= 2) => heap' = heap
              /\ (IsFormExpr(out'.line, "let") /\ ~IsLet(out'.line)) =>
                     /\ ~IsOk(out'.res)
                     /\ "y" \in DOMAIN heap'[env].vars <=> "y" \in DOMAIN heap[env].vars]_vars

(***************************************************************************)
(* C26: which handler a non-empty list goes to depends only on the name of *)
(* its leading symbol, never on the environment.  A list led by define,    *)
(* lambda, begin, if or let is evaluated as that form (its leading symbol  *)
(* is not evaluated and its operands are treated as the form treats them)  *)
(* even when the name is bound by define, let or a closure parameter; the  *)
(* bare symbol is resolved by ordinary lookup through the frames; every    *)
(* other non-empty list is an application, whose first element is          *)
(* evaluated first, in the current frame.                                  *)
(***************************************************************************)
\* what a lookup of key from frame f finds when the trace l is at index i:
\* h0 is the heap before the line, h1 the heap after it
RECURSIVE LookupAt(_, _, _, _, _, _)
LookupAt(h0, h1, l, f, i, key) ==
    IF f = NoParent THEN Err(UndefinedSymbol(key))
    ELSE LET D == {j \in 1..(i - 1) : l[j].ev = "define" /\ l[j].env = f /\ l[j].name = key}
         IN  IF D # {} THEN Ok(l[Max(D)].val)
             ELSE IF f <= Len(h0) /\ key \in DOMAIN h0[f].vars THEN Ok(h0[f].vars[key])
             ELSE LookupAt(h0, h1, l, h1[f].parent, i, key)

\* the handler the name of the leading element selects
FormOf(x) ==
    IF x.items[1].expr = "Symbol" /\ x.items[1].name \in SpecialForms THEN x.items[1].name
    ELSE "application"

\* the eval call entered at l[i], with direct eval calls kids, went the way of form
HandledAs(l, i, kids, form) ==
    LET items == l[i].expr.items
        here(q) == l[kids[q]].env = l[i].env
    IN  CASE form = "define" ->
               IF Len(items) >= 3 /\ items[2].expr = "Symbol"
                   THEN /\ Len(kids) = 1 /\ l[kids[1]].expr = items[3] /\ here(1)
                        /\ (ExitOf(l, i) # 0 /\ IsOk(l[ExitOf(l, i)].res)) =>
                               l[ExitOf(l, i) - 1] = [ev |-> "define", env |-> l[i].env,
                                                      name |-> items[2].name, val |-> l[ExitOf(l, i)].res.val]
               ELSE kids = <<>>
          [] form = "lambda" ->
               /\ kids = <<>>
               /\ (ExitOf(l, i) # 0 /\ IsOk(l[ExitOf(l, i)].res)) => l[ExitOf(l, i)].res.val.value = "Lambda"
          [] form = "begin" ->
               /\ Len(kids) <= Len(items) - 1
               /\ \A q \in 1..Len(kids) : l[kids[q]].expr = items[q + 1] /\ here(q)
          [] form = "if" ->
               IF Len(items) # 4 THEN l[i + 1] = [ev |-> "exit", res |-> Err(ArityMismatch), d |-> l[i].d]
               ELSE /\ Len(kids) \in 1..2
                    /\ l[kids[1]].expr = items[2] /\ here(1)
                    /\ Len(kids) = 2 =>
                           /\ here(2)
                           /\ l[ExitOf(l, kids[1])].res.val.value = "Boolean"
                           /\ l[kids[2]].expr = IF l[ExitOf(l, kids[1])].res.val.b THEN items[3] ELSE items[4]
          [] form = "let" ->
               IF Len(items) # 3 THEN l[i + 1] = [ev |-> "exit", res |-> Err(ArityMismatch), d |-> l[i].d]
               ELSE IF items[2].expr # "List" THEN kids = <<>>
               ELSE /\ Len(kids) <= Len(items[2].items) + 1
                    /\ \A q \in 1..Len(kids) :
                           IF q <= Len(items[2].items)
                               THEN /\ IsBinding(items[2].items[q])
                                    /\ l[kids[q]].expr = items[2].items[q].items[2] /\ here(q)
                           ELSE l[kids[q]].expr = items[3] /\ ~here(q)
          [] form = "application" ->
               /\ Len(kids) >= 1
               /\ l[kids[1]].expr = items[1] /\ here(1)
               /\ \A q \in 2..Len(kids) :
                      ExitOf(l, kids[q - 1]) # 0 /\ IsOk(l[ExitOf(l, kids[q - 1])].res)

C26_DispatchByName ==
    [][Step =>
          \A l \in {out'.log} :
              \A i \in Enters(l) :
                  /\ l[i].expr.expr = "Symbol" =>
                         /\ Len(l) > i
                         /\ l[i + 1] = [ev |-> "exit", d |-> l[i].d,
                                        res |-> LookupAt(heap, heap', l, l[i].env, i, l[i].expr.name)]
                  /\ (l[i].expr.expr = "List" /\ l[i].expr.items # <<>> /\ l[i].d < StackLimit) =>
                         \A kids \in {Kids(l, i)} : HandledAs(l, i, kids, FormOf(l[i].expr))]_vars

\* (if #t 1 2) was 1 on a line read after the session bound the name if to a function
C26_Witness ==
    /\ nlines = 2
    /\ Env_get(heap, env, "if") = Some(VFunction("+"))
    /\ out.line = If(Bool(TRUE), Num(1), Num(2))
    /\ out.res = Ok(VNumber(1))

====
